---- MODULE Spec2Model ----
(***************************************************************************)
(* Model of the workflow engine of silver-engineer                         *)
(* (src/unnamed/part_010: class WorkflowEngine and its module helpers,     *)
(* src/src/features/workflow-engine/types.ts: the data types).             *)
(*                                                                         *)
(* Representation of strings.  A text is a sequence of chunks; a chunk is  *)
(* one character ("{", "}", " ", "P", ...) or a fixed phrase of the   *)
(* source that contains none of the characters the engine inspects (for    *)
(* instance the built-in input name "git_diff_staged" or the reason        *)
(* "No LM available").  The empty text <<>> is the JavaScript ''.  An      *)
(* optional string field that the code only tests for truthiness or with   *)
(* ?? '' is modelled by its text, <<>> when the field is absent; on_fail *)
(* is the one field whose absence the code tells from '' (?? 'abort'),   *)
(* so it carries a present flag.                                           *)
(***************************************************************************)
EXTENDS Integers, Sequences, FiniteSets, TLC

\* -------------------------------------------------------------------------
\* Bounds of the model
\* -------------------------------------------------------------------------

\* Longest workflow definition explored.
MaxSteps == 2

\* Largest N of a retry(max: N) policy explored.
MaxRetry == 2

\* Largest number of pieces of a text given to a text function.
MaxPieces == 3

\* The conditions explored join at most this many operands.
MaxOperands == 3

\* The workflow directories explored hold at most this many files.
MaxFiles == 2

\* Each of two runs on one engine has at most this many steps.
MaxRunSteps == 1

\* The calls of invokeWithConfirmation explored.
MaxCalls == 2

\* The largest value of the setting maxAgentLoopIterations explored.
MaxIterations == 2

\* The calendar days explored.
MaxDays == 2

\* The calls of forceSummary explored.
MaxForced == 2

\* -------------------------------------------------------------------------
\* Generic helpers on texts
\* -------------------------------------------------------------------------

Min(a, b) == IF a < b THEN a ELSE b

\* String.prototype.includes: needle occurs as a contiguous part of hay.
Includes(hay, needle) ==
    \E k \in 0..(Len(hay) - Len(needle)) :
        SubSeq(hay, k + 1, k + Len(needle)) = needle

\* String.prototype.startsWith
StartsWith(text, prefix) ==
    /\ Len(prefix) <= Len(text)
    /\ SubSeq(text, 1, Len(prefix)) = prefix

\* The characters JavaScript's \s and trim() treat as white space.
WhiteSpace == {" ", "\n"}

RECURSIVE TrimStart(_)
TrimStart(t) ==
    IF t # <<>> /\ Head(t) \in WhiteSpace THEN TrimStart(Tail(t)) ELSE t

RECURSIVE TrimEnd(_)
TrimEnd(t) ==
    IF t # <<>> /\ t[Len(t)] \in WhiteSpace
    THEN TrimEnd(SubSeq(t, 1, Len(t) - 1))
    ELSE t

\* String.prototype.trim
Trim(t) == TrimEnd(TrimStart(t))

\* -------------------------------------------------------------------------
\* checkExpect
\* -------------------------------------------------------------------------

\* A plausible slip: the operands of includes swapped.
checkExpectSwapped(output, expect) ==
    IF expect = <<>> THEN TRUE ELSE Includes(expect, output)

\* A plausible slip: without an expectation, the marker [PASS] is required.
checkExpectDefaultMarker(output, expect) ==
    IF expect = <<>> THEN Includes(output, <<"[PASS]">>)
    ELSE Includes(output, expect)

\* checkExpect(output, expect): no expectation passes, else substring test.
checkExpect(output, expect) ==
    IF expect = <<>> THEN TRUE ELSE Includes(output, expect)

\* -------------------------------------------------------------------------
\* Condition evaluator
\*
\* A condition is a text whose chunks are records [k, v]:
\*   [k |-> "passed",  v |-> id]   the terminal steps.<id>.passed
\*   [k |-> "skipped", v |-> id]   the terminal steps.<id>.skipped
\*   [k |-> "lit",     v |-> c]    any other piece of text c
\* Every id of the model matches [a-zA-Z0-9_-]+, so both regular
\* expressions of evaluateCondition find every terminal.
\* -------------------------------------------------------------------------

Passed(id)  == [k |-> "passed",  v |-> id]
Skipped(id) == [k |-> "skipped", v |-> id]
Lit(c)      == [k |-> "lit",     v |-> c]

\* String(r.passed) / String(r.skipped)
BoolText(b) == IF b THEN "true" ELSE "false"

\* A plausible slip: any recorded step counts as passed.
SubstPassedRecorded(condition, results) ==
    [n \in DOMAIN condition |->
        IF condition[n].k = "passed"
        THEN Lit(BoolText(condition[n].v \in DOMAIN results))
        ELSE condition[n]]

\* A plausible slip: a step without a record counts as passed.
SubstPassedAbsentTrue(condition, results) ==
    [n \in DOMAIN condition |->
        IF condition[n].k = "passed"
        THEN Lit(IF condition[n].v \in DOMAIN results
                 THEN BoolText(results[condition[n].v].passed)
                 ELSE "true")
        ELSE condition[n]]

\* First replace(): steps.<id>.passed -> the ledger's value, 'false' when
\* the ledger has no entry for id.
SubstPassed(condition, results) ==
    [n \in DOMAIN condition |->
        IF condition[n].k = "passed"
        THEN Lit(IF condition[n].v \in DOMAIN results
                 THEN BoolText(results[condition[n].v].passed)
                 ELSE "false")
        ELSE condition[n]]

\* Second replace(): steps.<id>.skipped likewise.
SubstSkipped(expr, results) ==
    [n \in DOMAIN expr |->
        IF expr[n].k = "skipped"
        THEN Lit(IF expr[n].v \in DOMAIN results
                 THEN BoolText(results[expr[n].v].skipped)
                 ELSE "false")
        ELSE expr[n]]

\* The pieces of text all of whose characters lie in the character class
\* [true|false|&&|\|\||!|\s|()] , i.e. in { t r u e | f a l s & ! ( ) } and
\* white space.  Pieces of the model outside it: "==", "1", "x".
SafeChunks == {"true", "false", "&&", "||", "|", "&", "!", "(", ")", " ", "a"}

\* /^[true|false|&&|\|\||!|\s|()]+$/.test(expr)
IsSafe(expr) ==
    /\ expr # <<>>
    /\ \A n \in DOMAIN expr : expr[n].k = "lit" /\ expr[n].v \in SafeChunks

\* ----- new Function('return (' + expr + ')')() ------------------------------
\* JavaScript's reading of the chunks above, by precedence:
\*   ||  <  &&  <  |  <  &  <  !  <  call  <  primary
\* A parse result is [ok, thrown, val, pos]: ok = no SyntaxError, thrown =
\* evaluation throws (ReferenceError for the undefined identifier a,
\* TypeError for a call of a non-function), val = truthiness of the value,
\* pos = next unread chunk.  && and || do not evaluate their right operand
\* when the left one decides; | and & evaluate both.

JsFail == [ok |-> FALSE, thrown |-> FALSE, val |-> FALSE, pos |-> 0]
JsVal(b, p) == [ok |-> TRUE, thrown |-> FALSE, val |-> b, pos |-> p]
JsThrow(p) == [ok |-> TRUE, thrown |-> TRUE, val |-> FALSE, pos |-> p]

At(t, p) == IF p \in DOMAIN t THEN t[p] ELSE "<end>"

\* The binary operators by level, loosest first; level 5 is a unary
\* expression.
JsOp(level) == <<"||", "&&", "|", "&">>[level]

\* The value of  l op r  at a level, from the results of its operands.
JsCombine(level, l, r) ==
    CASE level = 1 -> IF l.thrown \/ l.val THEN [l EXCEPT !.pos = r.pos] ELSE r
      [] level = 2 -> IF l.thrown \/ ~l.val THEN [l EXCEPT !.pos = r.pos] ELSE r
      [] level = 3 -> [ok |-> TRUE, thrown |-> l.thrown \/ r.thrown,
                       val |-> (l.val \/ r.val) /\ ~l.thrown /\ ~r.thrown,
                       pos |-> r.pos]
      [] OTHER     -> [ok |-> TRUE, thrown |-> l.thrown \/ r.thrown,
                       val |-> l.val /\ r.val /\ ~l.thrown /\ ~r.thrown,
                       pos |-> r.pos]

\* The parser, one operator for all its parts:
\*   "start": an expression of the level begins at l.pos
\*   "rest" : l is the left operand read so far at the level
\*   "call" : l is a primary; calls  ( [argument] )  may follow.  The callee
\*            is never a function, so a call that is evaluated throws.
RECURSIVE JsParse(_, _, _, _)
JsParse(mode, level, t, l) ==
    LET p == l.pos
        c == At(t, p)
    IN  CASE mode = "start" /\ level < 5 ->
                LET first == JsParse("start", level + 1, t, l)
                IN  IF first.ok THEN JsParse("rest", level, t, first) ELSE JsFail
          [] mode = "rest" ->
                IF c # JsOp(level) THEN l
                ELSE LET r == JsParse("start", level + 1, t, JsVal(FALSE, p + 1))
                     IN  IF r.ok
                         THEN JsParse("rest", level, t, JsCombine(level, l, r))
                         ELSE JsFail
          [] mode = "call" ->
                IF c # "(" THEN l
                ELSE IF At(t, p + 1) = ")"
                THEN JsParse("call", level, t, JsThrow(p + 2))
                ELSE LET r == JsParse("start", 1, t, JsVal(FALSE, p + 1))
                     IN  IF r.ok /\ At(t, r.pos) = ")"
                         THEN JsParse("call", level, t, JsThrow(r.pos + 1))
                         ELSE JsFail
          [] OTHER ->
                CASE c = "!" ->
                        LET r == JsParse("start", 5, t, JsVal(FALSE, p + 1))
                        IN  IF r.ok
                            THEN [r EXCEPT !.val = ~r.val /\ ~r.thrown]
                            ELSE JsFail
                  [] c = "true"  -> JsParse("call", 5, t, JsVal(TRUE, p + 1))
                  [] c = "false" -> JsParse("call", 5, t, JsVal(FALSE, p + 1))
                  [] c = "a"     -> JsParse("call", 5, t, JsThrow(p + 1))
                  [] c = "("     ->
                        LET r == JsParse("start", 1, t, JsVal(FALSE, p + 1))
                        IN  IF r.ok /\ At(t, r.pos) = ")"
                            THEN JsParse("call", 5, t, [r EXCEPT !.pos = r.pos + 1])
                            ELSE JsFail
                  [] OTHER -> JsFail

\* A whole expression read from position p.
JsOr(t, p) == JsParse("start", 1, t, JsVal(FALSE, p))

\* The chunks the JavaScript parser sees: white space separates and is dropped.
JsTokens(expr) ==
    LET vals == [n \in DOMAIN expr |-> expr[n].v]
    IN  SelectSeq(vals, LAMBDA c : c \notin WhiteSpace)

\* try { return Boolean(new Function('return (' + expr + ')')()) } catch { return false }
JsEvalOrFalse(expr) ==
    LET t == <<"(">> \o JsTokens(expr) \o <<")">>
        r == JsOr(t, 1)
    IN  r.ok /\ r.pos = Len(t) + 1 /\ ~r.thrown /\ r.val

\* A plausible slip: the second replacement is left out.
evaluateConditionPassedOnly(condition, results) ==
    LET expr == SubstPassed(condition, results)
    IN  IF IsSafe(expr) THEN JsEvalOrFalse(expr) ELSE FALSE

\* A plausible slip: an expression that cannot be evaluated counts as true.
evaluateConditionLax(condition, results) ==
    LET expr == SubstSkipped(SubstPassed(condition, results), results)
    IN  IF IsSafe(expr)
        THEN LET t == <<"(">> \o JsTokens(expr) \o <<")">>
                 r == JsOr(t, 1)
             IN  IF r.ok /\ r.pos = Len(t) + 1 /\ ~r.thrown THEN r.val ELSE TRUE
        ELSE TRUE

\* evaluateCondition(condition, results)
evaluateCondition(condition, results) ==
    LET expr == SubstSkipped(SubstPassed(condition, results), results)
    IN  IF IsSafe(expr) THEN JsEvalOrFalse(expr) ELSE FALSE

\* -------------------------------------------------------------------------
\* parseRetry and the failure strategy
\*
\* An on_fail value is [present, toks]; toks is the string cut into the
\* pieces the regular expression of parseRetry tells apart: the words
\* "retry", "max", "abort", "continue" and other words, "(", ":", ")",
\* " " and natural numbers written as digit strings ("0", "1", ...).
\* -------------------------------------------------------------------------

\* \d+ : the digit strings of the model and the numbers parseInt gives.
DigitValue(c) ==
    CASE c = "0" -> 0 [] c = "1" -> 1 [] c = "2" -> 2 [] c = "3" -> 3
      [] c = "4" -> 4 [] OTHER -> -1

IsDigits(c) == DigitValue(c) >= 0

RECURSIVE SkipSpaces(_, _)
\* \s* from position p
SkipSpaces(t, p) ==
    IF p \in DOMAIN t /\ t[p] \in WhiteSpace THEN SkipSpaces(t, p + 1) ELSE p

\* retry\s*\(\s*max\s*:\s*(\d+)\s*\) matched at position p: the number, or -1.
RetryMatchAt(t, p) ==
    LET p1 == SkipSpaces(t, p + 1)
        p2 == SkipSpaces(t, p1 + 1)
        p3 == SkipSpaces(t, p2 + 1)
        p4 == SkipSpaces(t, p3 + 1)
        p5 == SkipSpaces(t, p4 + 1)
    IN  IF /\ At(t, p) = "retry"
           /\ At(t, p1) = "("
           /\ At(t, p2) = "max"
           /\ At(t, p3) = ":"
           /\ IsDigits(At(t, p4))
           /\ At(t, p5) = ")"
        THEN DigitValue(t[p4])
        ELSE -1

\* A plausible slip: one attempt too few (N attempts instead of N + 1).
parseRetryShort(onFail) ==
    IF ~onFail.present \/ onFail.toks = <<>> THEN 0
    ELSE LET hits == {p \in DOMAIN onFail.toks : RetryMatchAt(onFail.toks, p) >= 0}
         IN  IF hits = {} THEN 0
             ELSE LET first == CHOOSE p \in hits : \A q \in hits : p <= q
                      n == RetryMatchAt(onFail.toks, first)
                  IN  IF n > 0 THEN n - 1 ELSE 0

\* parseRetry(onFail): N of the first match of retry(max: N), else 0.
parseRetry(onFail) ==
    IF ~onFail.present \/ onFail.toks = <<>> THEN 0
    ELSE LET hits == {p \in DOMAIN onFail.toks : RetryMatchAt(onFail.toks, p) >= 0}
         IN  IF hits = {} THEN 0
             ELSE RetryMatchAt(onFail.toks,
                               CHOOSE p \in hits : \A q \in hits : p <= q)

\* const strategy = step.on_fail ?? 'abort'
Strategy(onFail) == IF onFail.present THEN onFail.toks ELSE <<"abort">>

\* A plausible slip: exhausted retries do not abort.
AbortsOnFailureNoRetry(onFail) == Strategy(onFail) = <<"abort">>

\* strategy === 'abort' || strategy.startsWith('retry')
AbortsOnFailure(onFail) ==
    \/ Strategy(onFail) = <<"abort">>
    \/ StartsWith(Strategy(onFail), <<"retry">>)

\* -------------------------------------------------------------------------
\* Variable store: a function from the names that are set to their values.
\* -------------------------------------------------------------------------

\* The length n >= 1 of the key of a {{key}} placeholder that starts at the
\* head of t (/\{\{([^}]+)\}\}/ anchored at the head), or 0 when none does.
RECURSIVE KeyRun(_, _)
KeyRun(t, p) ==
    IF p \in DOMAIN t /\ t[p] # "}" THEN 1 + KeyRun(t, p + 1) ELSE 0

PlaceholderAtHead(t) ==
    LET n == KeyRun(t, 3) IN
    IF /\ At(t, 1) = "{" /\ At(t, 2) = "{" /\ n >= 1
       /\ At(t, 3 + n) = "}" /\ At(t, 4 + n) = "}"
    THEN n ELSE 0

RECURSIVE interpolateRescan(_, _)
\* A plausible slip: the text put in for a placeholder is scanned again.
interpolateRescan(text, variables) ==
    IF text = <<>> THEN <<>>
    ELSE LET n == PlaceholderAtHead(text) IN
         IF n = 0
         THEN <<Head(text)>> \o interpolateRescan(Tail(text), variables)
         ELSE LET key == Trim(SubSeq(text, 3, 2 + n))
                  rest == SubSeq(text, 5 + n, Len(text))
              IN  IF key \in DOMAIN variables
                  THEN interpolateRescan(variables[key] \o rest, variables)
                  ELSE SubSeq(text, 1, 4 + n) \o interpolateRescan(rest, variables)

\* interpolate(text, variables): one left-to-right pass; an unset key keeps
\* its placeholder text.
RECURSIVE interpolate(_, _)
interpolate(text, variables) ==
    IF text = <<>> THEN <<>>
    ELSE LET n == PlaceholderAtHead(text) IN
         IF n = 0
         THEN <<Head(text)>> \o interpolate(Tail(text), variables)
         ELSE LET key == Trim(SubSeq(text, 3, 2 + n))
                  rest == SubSeq(text, 5 + n, Len(text))
              IN  (IF key \in DOMAIN variables
                   THEN variables[key]
                   ELSE SubSeq(text, 1, 4 + n))
                  \o interpolate(rest, variables)

\* The backtick character, which a TLA+ string cannot hold.
BQ == "BACKTICK"

\* stripCodeFences(text)
stripCodeFences(text) ==
    LET t == Trim(text)
        n == Len(t)
        fence == <<BQ, BQ, BQ>>
        nl == {p \in 4..n : t[p] = "\n"}
        q == IF nl = {} THEN 0 ELSE CHOOSE p \in nl : \A r \in nl : p <= r
        fenced == /\ StartsWith(t, fence)
                  /\ q > 0
                  /\ n - 2 >= q + 1
                  /\ SubSeq(t, n - 2, n) = fence
        inline == /\ n >= 3
                  /\ t[1] = BQ /\ t[n] = BQ
                  /\ \A p \in 2..(n - 1) : t[p] # BQ
    IN  IF fenced THEN Trim(SubSeq(t, q + 1, n - 3))
        ELSE IF inline THEN Trim(SubSeq(t, 2, n - 1))
        ELSE t

\* -------------------------------------------------------------------------
\* What the world outside the engine answers during one dispatch.
\*   ws      a workspace folder is open
\*   doc     the agent document / prompt file exists (and has a body)
\*   model   selectModel finds a language model
\*   throws  the external call (sendRequest, execSync of a shell step,
\*           reading the prompt file) throws
\*   text    the streamed response, the stdout of the command, or, when
\*           the call throws, its stderr / error message
\*   git1    first run of a built-in input command: [ok, out]
\*   addOk   git add -u succeeds
\*   git2    second run of the built-in input command
\* -------------------------------------------------------------------------

GitOut(t) == [ok |-> TRUE, out |-> t]
GitFails  == [ok |-> FALSE, out |-> <<>>]

\* Fixed pieces of text of the source.
DiffText      == <<"d">>
NoLM          == <<"No LM available">>
NoWorkspace   == <<"No workspace folder open">>
StepFailed    == <<"Step failed">>
CommandFailed == <<"Command failed">>
NoChanges     == <<"No changes to stage - working tree is clean">>

\* failReason: stderr.slice(0, 200)
FailReasonMax == 200

\* StepResult
StepResult(id, passed, output, skipped, failReason) ==
    [id |-> id, passed |-> passed, output |-> output, skipped |-> skipped,
     failReason |-> failReason]

\* A step function returns [thrown, msg, res]: either it throws an error
\* with message msg, or it returns the StepResult res.
Returns(res) == [thrown |-> FALSE, msg |-> <<>>, res |-> res]
Throws(id, msg) ==
    [thrown |-> TRUE, msg |-> msg, res |-> StepResult(id, FALSE, <<>>, FALSE, msg)]

BuiltinInputs ==
    {<<"git_diff_staged">>, <<"git_diff_last_commit">>, <<"commit_message_last">>}

\* resolveInput(input, variables); git is the answer of execSync for a
\* built-in source.
resolveInput(input, variables, git) ==
    LET n == Len(input)
        isVarRef == /\ n >= 5
                    /\ input[1] = "{" /\ input[2] = "{"
                    /\ input[n - 1] = "}" /\ input[n] = "}"
                    /\ \A p \in 3..(n - 2) : input[p] # "\n"
        key == Trim(SubSeq(input, 3, n - 2))
    IN  IF input = <<>> THEN <<>>
        ELSE IF isVarRef
        THEN (IF key \in DOMAIN variables THEN variables[key] ELSE <<>>)
        ELSE IF input \in BuiltinInputs
        THEN (IF ~git.ok
              THEN <<"(could not resolve input: ">> \o input \o <<")">>
              ELSE IF input = <<"commit_message_last">> THEN Trim(git.out)
              ELSE git.out)
        ELSE interpolate(input, variables)

\* A plausible slip: the input is not resolved again after git add -u.
AgentInputNoRestage(step, variables, env) ==
    resolveInput(step.input, variables, env.git1)

\* inputText of runAgentStep: the input resolved, and resolved once more
\* after git add -u when the staged diff came out empty.
AgentInput(step, variables, env) ==
    LET first == resolveInput(step.input, variables, env.git1)
        staged == step.input = <<"git_diff_staged">> /\ Trim(first) = <<>>
    IN  IF staged /\ env.addOk
        THEN resolveInput(step.input, variables, env.git2)
        ELSE first

\* runAgentStep(step, variables, stream, token)
runAgentStep(step, variables, env) ==
    LET inputText == AgentInput(step, variables, env)
        output == env.text
    IN  IF ~env.ws \/ ~env.doc
        THEN Returns(StepResult(step.id, FALSE, <<>>, FALSE,
                <<".github/agents/">> \o step.agent \o <<".agent.md not found">>))
        ELSE IF step.input # <<>> /\ Trim(inputText) = <<>>
        THEN Returns(StepResult(step.id, FALSE, <<>>, FALSE,
                IF step.input = <<"git_diff_staged">>
                THEN NoChanges
                ELSE <<"Input ", BQ>> \o step.input \o <<BQ, " resolved to empty">>))
        ELSE IF ~env.model
        THEN Returns(StepResult(step.id, FALSE, <<>>, FALSE, NoLM))
        ELSE IF env.throws
        THEN Throws(step.id, env.text)
        ELSE IF ~checkExpect(output, step.expect)
        THEN Returns(StepResult(step.id, FALSE, output, FALSE,
                IF step.expect # <<>>
                THEN <<"Expected ", BQ>> \o step.expect \o <<BQ, " not found in output">>
                ELSE StepFailed))
        ELSE Returns(StepResult(step.id, TRUE, output, FALSE, <<>>))

\* runPromptStep(step, variables, stream, token)
runPromptStep(step, variables, env) ==
    LET output == env.text
    IN  IF ~env.ws
        THEN Returns(StepResult(step.id, FALSE, <<>>, FALSE, NoWorkspace))
        ELSE IF ~env.doc
        THEN Returns(StepResult(step.id, FALSE, <<>>, FALSE,
                <<"Prompt file not found: ">> \o step.prompt))
        ELSE IF ~env.model
        THEN Returns(StepResult(step.id, FALSE, <<>>, FALSE, NoLM))
        ELSE IF env.throws
        THEN Throws(step.id, env.text)
        ELSE IF ~checkExpect(output, step.expect)
        THEN Returns(StepResult(step.id, FALSE, output, FALSE,
                IF step.expect # <<>>
                THEN <<"Expected ", BQ>> \o step.expect \o <<BQ, " not found">>
                ELSE StepFailed))
        ELSE Returns(StepResult(step.id, TRUE,
                IF step.output # <<>> THEN stripCodeFences(output) ELSE output,
                FALSE, <<>>))

\* A plausible slip: the whole of stderr becomes the failReason.
runShellStepUncut(step, variables, env) ==
    LET stdout == Trim(env.text)
        stderr == env.text
    IN  IF env.throws
        THEN Returns(StepResult(step.id, FALSE, stderr, FALSE, stderr))
        ELSE IF ~checkExpect(stdout, step.expect)
        THEN Returns(StepResult(step.id, FALSE, stdout, FALSE,
                IF step.expect # <<>>
                THEN <<"Expected ", BQ>> \o step.expect \o <<BQ, " not found in output">>
                ELSE CommandFailed))
        ELSE Returns(StepResult(step.id, TRUE, stdout, FALSE, <<>>))

\* runShellStep(step, variables, stream)
runShellStep(step, variables, env) ==
    LET stdout == Trim(env.text)
        stderr == env.text
    IN  IF env.throws
        THEN Returns(StepResult(step.id, FALSE, stderr, FALSE,
                SubSeq(stderr, 1, Min(Len(stderr), FailReasonMax))))
        ELSE IF ~checkExpect(stdout, step.expect)
        THEN Returns(StepResult(step.id, FALSE, stdout, FALSE,
                IF step.expect # <<>>
                THEN <<"Expected ", BQ>> \o step.expect \o <<BQ, " not found in output">>
                ELSE CommandFailed))
        ELSE Returns(StepResult(step.id, TRUE, stdout, FALSE, <<>>))

\* cmd of runShellStep: interpolate(step.command ?? '', variables)
ShellCommand(step, variables) == interpolate(step.command, variables)

\* inputText of runPromptStep
PromptInput(step, variables, env) == resolveInput(step.input, variables, env.git1)

\* fullPrompt of runPromptStep for a prompt file whose body (front matter
\* stripped, trimmed) is promptContent: the body interpolated, then the
\* resolved input, if any, as a section of its own.
FullPrompt(promptContent, step, variables, env) ==
    LET body == interpolate(promptContent, variables)
        inputText == PromptInput(step, variables, env)
    IN  IF inputText # <<>>
        THEN body \o <<"\n", "\n", "## Input", "\n">> \o inputText
        ELSE body

\* label of runStep: interpolate(step.description ?? step.id, variables)
StepLabel(step, variables) ==
    interpolate(IF step.description # <<>> THEN step.description ELSE <<step.id>>,
                variables)

\* The external calls runAgentStep makes once the agent document is loaded:
\* the texts resolveInput returned, in order; the outcome of each git add -u;
\* the number of requests sent to the language model.
AgentCalls(step, variables, env) ==
    LET first == resolveInput(step.input, variables, env.git1)
        staged == step.input = <<"git_diff_staged">> /\ Trim(first) = <<>>
        inputText == AgentInput(step, variables, env)
    IN  [resolved |-> IF staged /\ env.addOk
                      THEN <<first, resolveInput(step.input, variables, env.git2)>>
                      ELSE <<first>>,
         adds |-> IF staged THEN <<env.addOk>> ELSE <<>>,
         sends |-> IF (step.input # <<>> /\ Trim(inputText) = <<>>) \/ ~env.model
                   THEN 0 ELSE 1]

\* The external calls runPromptStep makes once the prompt file is read.
PromptCalls(step, variables, env) ==
    [resolved |-> <<PromptInput(step, variables, env)>>,
     adds |-> <<>>,
     sends |-> IF env.model THEN 1 ELSE 0]

NoCalls == [resolved |-> <<>>, adds |-> <<>>, sends |-> 0]

\* What a dispatch hands to the outside world: the command a shell step
\* executes, or the input an agent or prompt step resolves ("none" when
\* the step returns before it resolves its input), and the calls it makes
\* on the way.
CallText(step, variables, env) ==
    CASE step.type = "shell" ->
            [kind |-> "command", text |-> ShellCommand(step, variables),
             calls |-> NoCalls]
      [] step.type = "prompt" /\ env.ws /\ env.doc ->
            [kind |-> "input", text |-> PromptInput(step, variables, env),
             calls |-> PromptCalls(step, variables, env)]
      [] step.type = "agent" /\ env.ws /\ env.doc ->
            [kind |-> "input", text |-> AgentInput(step, variables, env),
             calls |-> AgentCalls(step, variables, env)]
      [] OTHER -> [kind |-> "none", text |-> <<>>, calls |-> NoCalls]

\* The switch of runStep, before its catch.
runStepBody(step, variables, env) ==
    CASE step.type = "agent"  -> runAgentStep(step, variables, env)
      [] step.type = "prompt" -> runPromptStep(step, variables, env)
      [] step.type = "shell"  -> runShellStep(step, variables, env)
      [] OTHER -> Returns(StepResult(step.id, FALSE, <<>>, FALSE,
                        <<"unknown type: ", step.type>>))

\* A plausible slip: runStep without its try/catch lets the error escape.
runStepNoCatch(step, variables, env) == runStepBody(step, variables, env)

\* runStep(step, variables, stream, token): an error thrown by a step
\* function becomes a failed StepResult carrying the message of the error.
runStep(step, variables, env) ==
    LET r == runStepBody(step, variables, env)
    IN  IF r.thrown
        THEN Returns(StepResult(step.id, FALSE, <<>>, FALSE, r.msg))
        ELSE r

\* -------------------------------------------------------------------------
\* Built-in variables
\* -------------------------------------------------------------------------

\* toLowerCase, chunk by chunk.
LowerChunk(c) ==
    CASE c = "GitHub" -> "github"
      [] c = "GitLab" -> "gitlab"
      [] c = "Gerrit" -> "gerrit"
      [] OTHER -> c

ToLowerCase(t) == [n \in DOMAIN t |-> LowerChunk(t[n])]

\* A plausible slip: the Gerrit test is made first.
detectPlatformGerritFirst(remoteUrl) ==
    LET u == ToLowerCase(remoteUrl) IN
    IF \/ Includes(u, <<":29418">>)
       \/ Includes(u, <<"/a/">>)
       \/ Includes(u, <<"gerrit">>)
    THEN <<"gerrit">>
    ELSE IF Includes(u, <<"github", ".com">>) THEN <<"github">>
    ELSE IF Includes(u, <<"gitlab", ".com">>) \/ Includes(u, <<"gitlab">>)
    THEN <<"gitlab">>
    ELSE IF Includes(u, <<"bitbucket", ".org">>) THEN <<"bitbucket">>
    ELSE <<"unknown">>

\* detectPlatform(remoteUrl)
detectPlatform(remoteUrl) ==
    LET u == ToLowerCase(remoteUrl) IN
    IF Includes(u, <<"github", ".com">>) THEN <<"github">>
    ELSE IF Includes(u, <<"gitlab", ".com">>) \/ Includes(u, <<"gitlab">>)
    THEN <<"gitlab">>
    ELSE IF Includes(u, <<"bitbucket", ".org">>) THEN <<"bitbucket">>
    ELSE IF \/ Includes(u, <<":29418">>)
            \/ Includes(u, <<"/a/">>)
            \/ Includes(u, <<"gerrit">>)
    THEN <<"gerrit">>
    ELSE <<"unknown">>

\* A plausible slip: every platform but GitHub pushes for review.
buildPushCmdReview(platform, branch) ==
    IF platform # <<"github">>
    THEN <<"git push origin HEAD:refs/for/">> \o branch
    ELSE <<"git push origin HEAD:">> \o branch

\* buildPushCmd(platform, branch)
buildPushCmd(platform, branch) ==
    IF platform = <<"gerrit">>
    THEN <<"git push origin HEAD:refs/for/">> \o branch
    ELSE <<"git push origin HEAD:">> \o branch

\* variables.set(key, value)
MapSet(f, key, value) ==
    [x \in DOMAIN f \cup {key} |-> IF x = key THEN value ELSE f[x]]

\* populateGitVariables(variables) on an empty store; g holds the answers
\* of the three git commands, each [ok, out].
populateGitVariables(g) ==
    LET remoteUrl == Trim(g.remote.out)
        branch == Trim(g.branch.out)
        platform == detectPlatform(remoteUrl)
        v0 == <<>>
        v1 == MapSet(v0, <<"git_remote_url">>, remoteUrl)
        v2 == MapSet(v1, <<"git_branch">>, branch)
        v3 == MapSet(v2, <<"git_platform">>, platform)
        v4 == MapSet(v3, <<"git_push_cmd">>, buildPushCmd(platform, branch))
        v5 == MapSet(v4, <<"git_recent_commits">>, Trim(g.log.out))
        reached == IF ~g.remote.ok THEN v0
                   ELSE IF ~g.branch.ok THEN v1
                   ELSE IF ~g.log.ok THEN v4
                   ELSE v5
        c1 == MapSet(reached, <<"git_platform">>, <<"unknown">>)
        c2 == MapSet(c1, <<"git_push_cmd">>, <<"git push">>)
        c3 == MapSet(c2, <<"git_recent_commits">>, <<"(no git history)">>)
    IN  IF g.remote.ok /\ g.branch.ok /\ g.log.ok THEN v5 ELSE c3

\* -------------------------------------------------------------------------
\* Discovery: listWorkflows and loadWorkflow
\*
\* A directory is [exists, files]; files is what readdirSync lists, in its
\* order.  A file is [base, ext, doc]; its name is base followed by ext.
\* doc.kind tells what reading and parsing the file gives:
\*   "map"     yaml.load returns a mapping, with the name field doc.name
\*             (<<>> when it has none) and the description doc.description
\*   "throws"  readFileSync or yaml.load throws
\*   "empty"   yaml.load returns undefined (an empty document), so that
\*             reading def.name throws
\* A call returns [thrown, value].
\* -------------------------------------------------------------------------

\* f.endsWith('.yml') || f.endsWith('.yaml')
IsWorkflowFile(f) == f.ext \in {".yml", ".yaml"}

\* path.basename(f, ext): the extension is cut off only if the name ends
\* with it.
Basename(f, ext) == IF f.ext = ext THEN <<f.base>> ELSE <<f.base, f.ext>>

\* The body of the try block runs to its end for the file.
Loads(f) == f.doc.kind = "map"

\* def.name ?? path.basename(f, '.yml')
DefName(f) == IF f.doc.name # <<>> THEN f.doc.name ELSE Basename(f, ".yml")

\* def.description ?? ''
DefDescription(f) == f.doc.description

\* The definition object yaml.load returns for the file.
Definition(f) == [name |-> f.doc.name, description |-> f.doc.description]

\* The test of loadWorkflow on one file.
NameMatches(f, name) ==
    \/ DefName(f) = name
    \/ Basename(f, ".yml") = name
    \/ Basename(f, ".yaml") = name

Null == [found |-> FALSE, def |-> [name |-> <<>>, description |-> <<>>]]
Found(def) == [found |-> TRUE, def |-> def]

Value(v) == [thrown |-> FALSE, value |-> v]
Raised == [thrown |-> TRUE, value |-> <<>>]

\* A plausible slip: no try around the reading of a file.
listWorkflowsNoCatch(dir) ==
    IF ~dir.exists THEN Value(<<>>)
    ELSE LET listed == SelectSeq(dir.files, IsWorkflowFile)
         IN  IF \E n \in DOMAIN listed : ~Loads(listed[n]) THEN Raised
             ELSE Value([n \in DOMAIN listed |->
                           [name |-> DefName(listed[n]),
                            description |-> DefDescription(listed[n]),
                            file |-> <<listed[n].base, listed[n].ext>>]])

\* listWorkflows()
listWorkflows(dir) ==
    IF ~dir.exists THEN Value(<<>>)
    ELSE LET listed == SelectSeq(dir.files, LAMBDA f : IsWorkflowFile(f) /\ Loads(f))
         IN  Value([n \in DOMAIN listed |->
                      [name |-> DefName(listed[n]),
                       description |-> DefDescription(listed[n]),
                       file |-> <<listed[n].base, listed[n].ext>>]])

\* A plausible slip: the name fields are tried on all files before the
\* file names.
loadWorkflowNameFirst(dir, name) ==
    IF ~dir.exists THEN Value(Null)
    ELSE LET ok == {n \in DOMAIN dir.files :
                       IsWorkflowFile(dir.files[n]) /\ Loads(dir.files[n])}
             byName == {n \in ok : DefName(dir.files[n]) = name}
             byFile == {n \in ok : NameMatches(dir.files[n], name)}
             first(S) == CHOOSE n \in S : \A m \in S : n <= m
         IN  IF byName # {} THEN Value(Found(Definition(dir.files[first(byName)])))
             ELSE IF byFile # {} THEN Value(Found(Definition(dir.files[first(byFile)])))
             ELSE Value(Null)

\* loadWorkflow(name)
loadWorkflow(dir, name) ==
    IF ~dir.exists THEN Value(Null)
    ELSE LET hits == {n \in DOMAIN dir.files :
                         /\ IsWorkflowFile(dir.files[n])
                         /\ Loads(dir.files[n])
                         /\ NameMatches(dir.files[n], name)}
         IN  IF hits = {} THEN Value(Null)
             ELSE Value(Found(Definition(
                      dir.files[CHOOSE n \in hits : \A m \in hits : n <= m])))

\* -------------------------------------------------------------------------
\* Inputs explored
\* -------------------------------------------------------------------------

\* on_fail values
NoPolicy     == [present |-> FALSE, toks |-> <<>>]
Policy(toks) == [present |-> TRUE, toks |-> toks]
DigitsOf(n)  == <<"0", "1", "2", "3", "4">>[n + 1]
Retry(n)     == Policy(<<"retry", "(", "max", ":", " ", DigitsOf(n), ")">>)

\* The ids of the steps of a definition, by position.
IdOf(k) == <<"s1", "s2", "s3", "s4">>[k]

VarX == <<"x">>

StepBase ==
    [id |-> "", type |-> "shell", agent |-> <<>>, prompt |-> <<>>,
     command |-> <<>>, input |-> <<>>, output |-> <<>>, expect |-> <<>>,
     on_fail |-> NoPolicy, condition |-> <<>>, description |-> <<>>]

\* The step definitions explored (ids are given by position).
StepDefs ==
    { \* shell, default policy, output captured
      [StepBase EXCEPT !.command = <<"c">>, !.output = VarX],
      \* shell, expectation, continue
      [StepBase EXCEPT !.command = <<"c", " ", "{", "{", "{", "x", "}", "}", "}">>,
                       !.expect = <<"P">>, !.on_fail = Policy(<<"continue">>)],
      \* agent on the staged diff, retried up to MaxRetry times
      [StepBase EXCEPT !.type = "agent", !.agent = <<"reviewer">>,
                       !.input = <<"git_diff_staged">>,
                       !.on_fail = Retry(MaxRetry)],
      \* prompt whose output is captured, one retry
      [StepBase EXCEPT !.type = "prompt", !.prompt = <<"p.prompt.md">>,
                       !.input = <<"git_diff_staged">>,
                       !.output = VarX, !.expect = <<"P">>,
                       !.on_fail = Retry(1)],
      \* a step kind the engine does not know, one retry
      [StepBase EXCEPT !.type = "deploy", !.on_fail = Retry(1)],
      \* shell run only if s1 passed, explicit abort
      [StepBase EXCEPT !.command = <<"{", "{", "x", "}", "}", ";",
                                      "{", "{", "x", "}", "}">>,
                       !.output = VarX,
                       !.condition = <<Passed("s1")>>,
                       !.on_fail = Policy(<<"abort">>)],
      \* condition that JavaScript cannot parse: steps.s1.passed &&
      [StepBase EXCEPT !.command = <<"c">>, !.output = VarX,
                       !.condition = <<Passed("s1"), Lit(" "), Lit("&&")>>,
                       !.on_fail = Policy(<<"continue">>)],
      \* condition with characters outside the allowed set
      [StepBase EXCEPT !.type = "prompt", !.prompt = <<"p.prompt.md">>,
                       !.condition = <<Passed("s1"), Lit("=="), Lit("true")>>,
                       !.on_fail = Retry(1)]
    }

WithIds(defs) == [k \in DOMAIN defs |-> [defs[k] EXCEPT !.id = IdOf(k)]]

RECURSIVE SeqsUpTo(_, _)
\* The sequences over S of length 0..n.
SeqsUpTo(S, n) ==
    IF n = 0 THEN {<<>>}
    ELSE LET shorter == SeqsUpTo(S, n - 1)
         IN  shorter \cup {Append(q, x) : q \in {z \in shorter : Len(z) = n - 1}, x \in S}

Workflows ==
    {[name |-> "wf", steps |-> WithIds(d)] : d \in SeqsUpTo(StepDefs, MaxSteps)}

\* The definitions made of the shell and agent steps.
FairWorkflows ==
    {[name |-> "wf", steps |-> WithIds(d)] :
        d \in SeqsUpTo({e \in StepDefs : e.type \in {"shell", "agent"}}, MaxSteps)}

\* The answers of git at the start of a run: a repository whose remote is a
\* Gerrit server.
GitEnvs ==
    { [remote |-> GitOut(<<"ssh://", "host", ":29418", "/r", "\n">>),
       branch |-> GitOut(<<"main", "\n">>),
       log |-> GitOut(<<"- fix">>)] }

\* The texts the outside world answers with.
EnvTexts == {<<>>, <<"P", "\n">>, <<BQ, "P", BQ>>, <<BQ, "F", BQ>>}

\* The message of an error thrown by an external call.
ErrorText == <<"E">>

\* The values of on_fail explored for the classification of a failure: none,
\* the three documented forms (with the retry bounds 0..MaxRetry, and with
\* the white space the pattern allows), the empty string, misspelt and
\* padded policies, strings that begin with retry without matching the
\* pattern, and strings that hold a match without beginning with retry.
Policies ==
    {NoPolicy, Policy(<<"abort">>), Policy(<<"continue">>), Policy(<<>>)}
    \cup {Retry(n) : n \in 0..MaxRetry}
    \cup {Policy(<<"retry", " ", "(", " ", "max", " ", ":", "1", " ", ")">>),
          Policy(<<"Abort">>), Policy(<<"abort", " ">>), Policy(<<"contnue">>),
          Policy(<<"retry">>), Policy(<<"retry", "(", "2", ")">>),
          Policy(<<"retry", "(", "max", ":", " ", "x", ")">>),
          Policy(<<"retry", ";", "retry", "(", "max", ":", "1", ")">>),
          Policy(<<" ", "retry", "(", "max", ":", "1", ")">>),
          Policy(<<"continue", " ", "retry", "(", "max", ":", "1", ")">>)}

\* Definitions of two steps: a shell step under each policy, and a shell
\* step that runs only if the first one passed.
PolicyWorkflows ==
    {[name |-> "wf",
      steps |-> WithIds(<<[StepBase EXCEPT !.command = <<"c">>, !.expect = <<"P">>,
                                           !.on_fail = policy],
                          [StepBase EXCEPT !.command = <<"c">>,
                                           !.condition = <<Passed("s1")>>]>>)] :
        policy \in Policies}

\* Definitions of two steps for the conditions that read a skipped step: a
\* first step without condition, or with one that is false at the start of
\* a run, and a second step whose condition reads the first.
SkipWorkflows ==
    {[name |-> "wf",
      steps |-> WithIds(<<[StepBase EXCEPT !.command = <<"c">>, !.expect = <<"P">>,
                                           !.on_fail = Policy(<<"continue">>),
                                           !.condition = first],
                          [StepBase EXCEPT !.command = <<"c">>,
                                           !.condition = later]>>)] :
        first \in {<<>>, <<Passed("s2")>>, <<Lit("false")>>},
        later \in {<<Passed("s1")>>, <<Skipped("s1")>>,
                   <<Lit("!"), Skipped("s1")>>, <<Lit("!"), Passed("s1")>>,
                   <<Passed("s1"), Lit(" "), Lit("&&"), Lit(" "), Skipped("s1")>>}}

\* The texts a failing command writes to stderr, character by character:
\* none, one, and lengths around the longest a failReason may have.
StderrTexts ==
    { [n \in 1..len |-> "e"] :
        len \in {0, 1, FailReasonMax - 1, FailReasonMax, FailReasonMax + 1,
                 2 * FailReasonMax} }

\* The shell steps among the step definitions explored.
ShellWorkflows ==
    {[name |-> "wf", steps |-> WithIds(<<d>>)] : d \in {e \in StepDefs : e.type = "shell"}}

EnvBase ==
    [ws |-> TRUE, doc |-> TRUE, model |-> TRUE, throws |-> FALSE,
     text |-> <<"P", "\n">>, git1 |-> GitOut(DiffText), addOk |-> TRUE,
     git2 |-> GitOut(DiffText)]

\* The answers explored for one dispatch: everything available with each
\* text, returned or thrown; and one thing missing at a time.
Envs ==
    {[EnvBase EXCEPT !.text = t] : t \in EnvTexts}
    \cup {[EnvBase EXCEPT !.text = ErrorText, !.throws = TRUE]}
    \cup {[EnvBase EXCEPT !.ws = FALSE], [EnvBase EXCEPT !.doc = FALSE],
          [EnvBase EXCEPT !.model = FALSE], [EnvBase EXCEPT !.git1 = GitFails]}
    \cup {[EnvBase EXCEPT !.git1 = GitOut(<<>>), !.addOk = a, !.git2 = g] :
            a \in BOOLEAN, g \in {GitOut(<<>>), GitOut(DiffText)}}

\* The texts explored are made of at most MaxPieces of these pieces: single
\* characters, placeholders ({{x}}, {{y}}, {{ x }}) and names of built-in
\* inputs.
TextPieces ==
    { <<"{">>, <<"}">>, <<"a">>,
      <<"{", "{", "x", "}", "}">>, <<"{", "{", "y", "}", "}">>,
      <<"{", "{", " ", "x", " ", "}", "}">>,
      <<"git_diff_staged">>, <<"commit_message_last">> }

RECURSIVE Flatten(_)
\* The pieces of a sequence, one after the other.
Flatten(q) == IF q = <<>> THEN <<>> ELSE Head(q) \o Flatten(Tail(q))

Texts == {Flatten(q) : q \in SeqsUpTo(TextPieces, MaxPieces)}

\* The stores explored: x and y unset or set, x possibly to the text {{y}}.
Stores ==
    { <<>>,
      MapSet(<<>>, <<"x">>, <<"v">>),
      MapSet(<<>>, <<"y">>, <<"w">>),
      MapSet(MapSet(<<>>, <<"x">>, <<"v">>), <<"y">>, <<"w">>),
      MapSet(MapSet(<<>>, <<"x">>, <<"{", "{", "y", "}", "}">>), <<"y">>, <<"w">>) }

\* The answers of git to the command of a built-in input.
TextGits == {GitOut(<<"d", "\n">>), GitOut(<<>>), GitFails}

\* The remote URLs explored are made of at most MaxPieces of these pieces.
\* No name the detection looks for arises across two pieces, except
\* github.com and bitbucket.org, which are written as two.
UrlPieces ==
    { <<"https://">>, <<"host">>, <<"github">>, <<"GitHub">>, <<".com">>,
      <<"gitlab">>, <<"bitbucket">>, <<".org">>, <<":29418">>, <<"/a/">>,
      <<"gerrit">> }

Urls == {Flatten(q) : q \in SeqsUpTo(UrlPieces, MaxPieces)}

\* The answers of git to the three queries of populateGitVariables in a
\* repository whose remote is url: each succeeds or fails.
SeedGits(url) ==
    { [remote |-> r, branch |-> b, log |-> l] :
        r \in {GitOut(url \o <<"\n">>), GitFails},
        b \in {GitOut(<<"main", "\n">>), GitFails},
        l \in {GitOut(<<"- fix">>), GitFails} }

\* The files explored: a.yml, a.yaml, b.yml, b.yaml with each kind of
\* document (a mapping names itself a or b or has no name field; its
\* description tells the file it is in), and a file that is no workflow.
FileDocs ==
    { [base |-> b, ext |-> e,
       doc |-> [kind |-> "map", name |-> n, description |-> <<b, e>>]] :
         b \in {"a", "b"}, e \in {".yml", ".yaml"}, n \in {<<>>, <<"a">>, <<"b">>} }
    \cup { [base |-> b, ext |-> e,
            doc |-> [kind |-> k, name |-> <<>>, description |-> <<>>]] :
              b \in {"a", "b"}, e \in {".yml", ".yaml"}, k \in {"throws", "empty"} }
    \cup { [base |-> "a", ext |-> ".md",
            doc |-> [kind |-> "map", name |-> <<"a">>, description |-> <<"a", ".md">>]] }

\* The directories explored: absent, or at most MaxFiles files of different
\* names in any order.
Directories ==
    { [exists |-> FALSE, files |-> <<>>] }
    \cup { [exists |-> TRUE, files |-> q] :
            q \in { z \in SeqsUpTo(FileDocs, MaxFiles) :
                      \A m, n \in DOMAIN z :
                          (z[m].base = z[n].base /\ z[m].ext = z[n].ext) => m = n } }

\* The names asked for.
RequestedNames == { <<"a">>, <<"b">>, <<"a", ".yaml">> }

\* The conditions explored.  An operand is a terminal, a literal, a negated
\* terminal or a parenthesised pair; a condition of the grammar joins
\* operands with && (here written with spaces around it) and ||.
CondOperands ==
    { <<Passed("s1")>>, <<Skipped("s1")>>, <<Passed("s2")>>,
      <<Lit("true")>>, <<Lit("false")>>,
      <<Lit("!"), Passed("s1")>>,
      <<Lit("!"), Lit("("), Skipped("s1"), Lit("||"), Passed("s2"), Lit(")")>> }

CondConnectors == { <<Lit(" "), Lit("&&"), Lit(" ")>>, <<Lit("||")>> }

RECURSIVE Joined(_)
\* The conditions of exactly n operands.
Joined(n) ==
    IF n = 1 THEN CondOperands
    ELSE {c \o op \o a : c \in Joined(n - 1), op \in CondConnectors,
                         a \in CondOperands}

GrammarConditions == UNION {Joined(n) : n \in 1..MaxOperands}

\* Texts outside the grammar: operands joined by | , & or == , a dangling
\* && , an identifier, a number, a call.
OtherConditions ==
    {a \o <<Lit(b)>> \o c : a \in CondOperands, c \in CondOperands,
                            b \in {"|", "&", "=="}}
    \cup {a \o <<Lit(" "), Lit("&&")>> : a \in CondOperands}
    \cup { <<Lit("a")>>, <<Lit("x")>>, <<Lit("1")>>,
           <<Lit("true"), Lit("("), Lit("false"), Lit(")")>>,
           <<Lit("("), Lit(")")>> }

Conditions == GrammarConditions \cup OtherConditions

\* The ledgers explored: s1 passed, failed or skipped; s2 absent, passed or
\* failed.
Ledgers ==
    LET ran(id, ok) == StepResult(id, ok, <<>>, FALSE, IF ok THEN <<>> ELSE <<"E">>)
        skip(id) == StepResult(id, TRUE, <<>>, TRUE, <<>>)
        first == {ran("s1", TRUE), ran("s1", FALSE), skip("s1")}
    IN  {MapSet(<<>>, "s1", r) : r \in first}
        \cup {MapSet(MapSet(<<>>, "s1", r), "s2", ran("s2", ok)) :
                 r \in first, ok \in BOOLEAN}

\* Two runs on one engine: the step definitions, workflows and answers
\* explored.  The first step definition captures its output as x; the
\* second reads x and runs only if s1 passed.
PairStepDefs ==
    { [StepBase EXCEPT !.command = <<"c">>, !.output = VarX],
      [StepBase EXCEPT !.command = <<"{", "{", "x", "}", "}", ";",
                                      "{", "{", "x", "}", "}">>,
                       !.output = VarX,
                       !.condition = <<Passed("s1")>>,
                       !.on_fail = Policy(<<"abort">>)] }

PairWorkflows ==
    {[name |-> "wf", steps |-> WithIds(d)] : d \in SeqsUpTo(PairStepDefs, MaxRunSteps)}

PairEnvs ==
    { [EnvBase EXCEPT !.text = <<"P", "\n">>],
      [EnvBase EXCEPT !.text = ErrorText, !.throws = TRUE] }

RunIds == 1..2

\* The locals of a call of run() that has not begun.  variables and
\* stepResults are references into maps (0: none); pending is <<>> or
\* <<what the awaited runStep will return>>; startedWhile is <<>> or
\* <<the other call's position and number of recorded steps when this one
\* began>> (history, read by no action).
IdleRun ==
    [pc |-> "idle", workflow |-> [name |-> "wf", steps |-> <<>>],
     variables |-> 0, stepResults |-> 0, results |-> <<>>, i |-> 1,
     attempt |-> 0, stepResult |-> <<>>, cancelled |-> FALSE,
     pending |-> <<>>, returned |-> <<>>, seed |-> <<>>, startedWhile |-> <<>>]

\* Tool calls: two of the tools registerAll registers, and a name that is
\* not registered.
Registry == {"silver_commit_code", "silver_push_gerrit"}
ToolNames == Registry \cup {"no_such_tool"}

\* Where a call comes from: the agentic loop, the pushToGerrit command, the
\* tools/call request of the MCP server.
Callers == {"loop", "command", "mcp"}

\* What the user does with the modal dialog: one of its two buttons, or
\* dismissal (showInformationMessage resolves to undefined).
DialogAnswers == {"Allow", "Cancel", "dismissed"}

CallIds == 1..MaxCalls

\* A call not yet made.  answer is <<>> or <<what the user answered to the
\* dialog of this call>>; result is <<>> or <<what the call returned>>.
IdleCall == [pc |-> "idle", via |-> "", tool |-> "", answer |-> <<>>, result |-> <<>>]

\* What JSON.parse makes of a reply of the model: kind is "text" when the
\* reply is not JSON (JSON.parse throws), "null" when it is the JSON null,
\* "object" otherwise; done and input tell whether the field is truthy;
\* tool is the field, "" when it is absent or empty.
Reply(kind, done, tool, input) ==
    [kind |-> kind, done |-> done, tool |-> tool, input |-> input]

Replies ==
    {Reply("text", FALSE, "", FALSE), Reply("null", FALSE, "", FALSE)}
    \cup {Reply("object", done, tool, input) :
            done \in BOOLEAN, tool \in ToolNames \cup {""}, input \in BOOLEAN}

\* runAgenticLoop not yet called.  reply is <<>> or <<the latest reply of the
\* model>>; answer is <<>> or <<the answer to the dialog of the latest tool
\* decision>>; messages is the length of the history sent with a request.
IdleLoop ==
    [pc |-> "idle", maxIter |-> 0, i |-> 0, requests |-> 0, reply |-> <<>>,
     answer |-> <<>>, messages |-> 0]

\* The calendar days (what todayKey returns).
Days == 1..MaxDays

\* The extension just installed, on the first day.  stored is what
\* globalState holds under STATE_KEY in this extension host, durable what
\* has reached the disk: <<>> or <<a date>>; today is the date the call of
\* maybeShowDailySummary in progress read; shown counts, per day, the calls
\* of runSummary made by maybeShowDailySummary; forced logs the calls of
\* forceSummary; skipped, failed and reloaded tell whether a startup call
\* returned at once, a summary failed, the extension host reloaded.
IdleBriefing ==
    [pc |-> "idle", clock |-> 1, today |-> 1, stored |-> <<>>, durable |-> <<>>,
     shown |-> [d \in Days |-> 0], forced |-> <<>>,
     skipped |-> FALSE, failed |-> FALSE, reloaded |-> FALSE]

\* -------------------------------------------------------------------------
\* WorkflowEngine.run as a state machine
\*
\* One run.  Between two awaits the code runs without interruption, so an
\* action is one such stretch: the head of the step loop together with the
\* call of runStep and what follows its return.  The cancellation token is
\* the one thing another task changes meanwhile.
\* -------------------------------------------------------------------------

VARIABLES
    workflow,        \* the WorkflowDefinition given to run()
    variables,       \* Map<string, string>: the variable store
    stepResults,     \* Map<string, StepResult>: the ledger
    results,         \* StepResult[]
    i,               \* position of the step of the current loop iteration
    attempt,         \* the local attempt of the retry loop
    stepResult,      \* the local stepResult: <<>> is null, else <<r>>
    cancelled,       \* token.isCancellationRequested
    pc,              \* "loop" while run() is executing, "done" once it has
                     \* returned, "raised" if an error escaped it
    returned,        \* <<>> or <<the WorkflowRunResult returned>>
    \* history, read by no action:
    dispatchCount,   \* per position, the number of calls of runStep
    conditionChecks, \* per position, the number of calls of evaluateCondition
    firstPass,       \* per position, the number of the call of runStep that
                     \* first returned passed (0: none yet)
    lastDispatch,    \* <<>> or <<what the latest call of runStep returned>>
    captureCount,    \* per position, the number of variables.set for the step
    uniformFailure,  \* every call of runStep for the step dispatched last
                     \* returned a failure, all with the same failReason
    tokenChecks,     \* per position, the number of reads of
                     \* token.isCancellationRequested by run()
    lastCall,        \* <<>> or <<the text the latest call of runStep handed
                     \* to the outside world>>
    lastAnswer,      \* the text the outside world answered to that call
    \* a call of one of the text functions on its own:
    text,            \* what is given to the function: a text, a condition,
                     \* a remote URL, a workflow directory
    applied,         \* <<>> or <<[op, git, out]>>: the function applied, the
                     \* answer of git (or the name) it was given, and what it
                     \* returned
    \* two calls of run() on one engine:
    runs,            \* per call, the locals of run()
    maps,            \* the Map objects created so far, by reference
    \* calls of ToolRegistry.invokeWithConfirmation:
    toolCalls,       \* per call, where it stands and what it holds
    effects,         \* the executions of tool.invoke so far, in order
    \* a call of ToolRegistry.runAgenticLoop:
    agentLoop,       \* its locals and what it has done so far
    \* NotificationManager and the globalState it reads and writes:
    briefing         \* the clock, the stored date, the summaries run

vars == <<workflow, variables, stepResults, results, i, attempt, stepResult,
          cancelled, pc, returned, dispatchCount, conditionChecks, firstPass,
          lastDispatch, captureCount, uniformFailure, tokenChecks, lastCall,
          lastAnswer, text, applied, runs, maps, toolCalls, effects, agentLoop, briefing>>

history == <<dispatchCount, conditionChecks, firstPass, lastDispatch, captureCount,
             uniformFailure, tokenChecks, lastCall, lastAnswer>>

Positions == 1..(MaxSteps + 1)

Init ==
    /\ workflow \in Workflows
    /\ \E g \in GitEnvs : variables = populateGitVariables(g)
    /\ stepResults = <<>>
    /\ results = <<>>
    /\ i = 1
    /\ attempt = 0
    /\ stepResult = <<>>
    /\ cancelled = FALSE
    /\ pc = "loop"
    /\ returned = <<>>
    /\ dispatchCount = [k \in Positions |-> 0]
    /\ conditionChecks = [k \in Positions |-> 0]
    /\ firstPass = [k \in Positions |-> 0]
    /\ lastDispatch = <<>>
    /\ captureCount = [k \in Positions |-> 0]
    /\ uniformFailure = FALSE
    /\ tokenChecks = [k \in Positions |-> 0]
    /\ lastCall = <<>>
    /\ lastAnswer = <<>>
    /\ runs = [r \in RunIds |-> IdleRun]
    /\ maps = <<>>
    /\ toolCalls = [c \in CallIds |-> IdleCall]
    /\ effects = <<>>
    /\ agentLoop = IdleLoop
    /\ briefing = IdleBriefing
    /\ text = <<>>
    /\ applied = <<>>

\* The step of the current iteration.
CurrentStep == workflow.steps[i]

\* Whether the loop has a step left.
HasStep == i \in DOMAIN workflow.steps

\* A plausible slip: r.passed || !r.skipped.
allPassedNegated(rs) == \A n \in DOMAIN rs : rs[n].passed \/ ~rs[n].skipped

\* results.every(r => r.passed || r.skipped)
allPassed(rs) == \A n \in DOMAIN rs : rs[n].passed \/ rs[n].skipped

\* A plausible slip: the loop head does not look at the token.
LoopHeadIgnoresToken(isCancellationRequested) == TRUE

\* if (token.isCancellationRequested) break;  the iteration goes on iff the
\* token is not cancelled.
LoopHeadProceeds(isCancellationRequested) == ~isCancellationRequested

\* A plausible slip: a skipped step is recorded as not passed.
SkippedResultNotPassed(step) == StepResult(step.id, FALSE, <<>>, TRUE, <<>>)

\* The result of a skipped step.
SkippedResult(step) == StepResult(step.id, TRUE, <<>>, TRUE, <<>>)

\* A plausible slip: the condition of a step is not consulted.
ConditionIgnored(step, ledger) == TRUE

\* if (step.condition) { const conditionPassed = evaluateCondition(...) ... }
ConditionMet(step, ledger) ==
    step.condition = <<>> \/ evaluateCondition(step.condition, ledger)

\* A plausible slip: a passing attempt does not end the retry loop.
LeavesRetryLoopExhaust(r, att, maxRetries) == att + 1 > maxRetries

\* The behaviour of a retry loop that gives up when no model is available.
LeavesRetryLoopNoModel(r, att, maxRetries) ==
    r.passed \/ att + 1 > maxRetries \/ r.failReason = <<"No LM available">>

\* A plausible slip: the retry loop gives up once the token is cancelled.
LeavesRetryLoopOnCancel(r, att, maxRetries) ==
    r.passed \/ att + 1 > maxRetries \/ cancelled

\* A plausible slip: the exhaustion test is made ahead of the increment.
LeavesRetryLoopLate(r, att, maxRetries) == r.passed \/ att > maxRetries

\* The retry loop leaves after this attempt:
\*   if (stepResult.passed) break; attempt++; if (attempt > maxRetries) break;
LeavesRetryLoop(r, att, maxRetries) == r.passed \/ att + 1 > maxRetries

\* A plausible slip: the result of the first attempt is kept.
AssignStepResultFirst(previous, r) == IF previous # <<>> THEN previous[1] ELSE r

\* stepResult = await this.runStep(...): the local holds the latest result.
AssignStepResult(previous, r) == r

\* A plausible slip: only the output of a passed step is captured.
CaptureIfPassed(step, r, store) ==
    IF step.output # <<>> /\ r.output # <<>> /\ r.passed
    THEN MapSet(store, step.output, r.output)
    ELSE store

\* if (step.output && stepResult.output) variables.set(step.output, stepResult.output)
Capture(step, r, store) ==
    IF step.output # <<>> /\ r.output # <<>>
    THEN MapSet(store, step.output, r.output)
    ELSE store

Captures(step, r) == step.output # <<>> /\ r.output # <<>>

\* The token is cancelled by the caller while run() awaits.
Cancel ==
    /\ pc = "loop"
    /\ ~cancelled
    /\ cancelled' = TRUE
    /\ UNCHANGED <<workflow, variables, stepResults, results, i, attempt,
                   stepResult, pc, returned, history, text, applied, runs, maps, toolCalls, effects, agentLoop, briefing>>

\* The loop ends (no step left, or cancellation seen at the loop head) and
\* run() returns the aggregate.
Complete ==
    /\ pc = "loop"
    /\ attempt = 0
    /\ ~HasStep \/ ~LoopHeadProceeds(cancelled)
    /\ returned' = <<[workflowName |-> workflow.name,
                      passed |-> allPassed(results),
                      steps |-> results,
                      abortedAt |-> <<>>]>>
    /\ pc' = "done"
    /\ tokenChecks' = IF HasStep THEN [tokenChecks EXCEPT ![i] = @ + 1]
                      ELSE tokenChecks
    /\ UNCHANGED <<workflow, variables, stepResults, results, i, attempt,
                   stepResult, cancelled, dispatchCount, conditionChecks,
                   firstPass, lastDispatch, captureCount, uniformFailure,
                   lastCall, lastAnswer, text, applied, runs, maps, toolCalls, effects, agentLoop, briefing>>

\* The condition of the step is present and false: the step is skipped.
Skip ==
    /\ pc = "loop"
    /\ attempt = 0
    /\ HasStep
    /\ LoopHeadProceeds(cancelled)
    /\ ~ConditionMet(CurrentStep, stepResults)
    /\ stepResults' = MapSet(stepResults, CurrentStep.id, SkippedResult(CurrentStep))
    /\ results' = Append(results, SkippedResult(CurrentStep))
    /\ i' = i + 1
    /\ conditionChecks' = [conditionChecks EXCEPT ![i] = @ + 1]
    /\ tokenChecks' = [tokenChecks EXCEPT ![i] = @ + 1]
    /\ UNCHANGED <<workflow, variables, attempt, stepResult, cancelled, pc,
                   returned, dispatchCount, firstPass, lastDispatch, captureCount,
                   uniformFailure, lastCall, lastAnswer, text, applied, runs, maps, toolCalls, effects, agentLoop, briefing>>

\* One call of runStep for the current step, with the answer env of the
\* outside world, and the code that follows its return: another turn of the
\* retry loop, or capture, ledger and failure handling.  The first call of a
\* step comes after the loop head (cancellation, condition).
Dispatch(env) ==
    /\ pc = "loop"
    /\ HasStep
    /\ attempt > 0
       \/ (LoopHeadProceeds(cancelled) /\ ConditionMet(CurrentStep, stepResults))
    /\ LET step == CurrentStep
           maxRetries == parseRetry(step.on_fail)
           out == runStep(step, variables, env)
           r == AssignStepResult(stepResult, out.res)
           leaves == LeavesRetryLoop(out.res, attempt, maxRetries)
           recorded == Append(results, r)
           aborts == ~r.passed /\ AbortsOnFailure(step.on_fail)
       IN  /\ dispatchCount' = [dispatchCount EXCEPT ![i] = @ + 1]
           /\ conditionChecks' =
                 IF attempt = 0 /\ step.condition # <<>>
                 THEN [conditionChecks EXCEPT ![i] = @ + 1]
                 ELSE conditionChecks
           /\ tokenChecks' =
                 IF attempt = 0 THEN [tokenChecks EXCEPT ![i] = @ + 1]
                 ELSE tokenChecks
           /\ lastDispatch' = <<out.res>>
           /\ lastCall' = <<CallText(step, variables, env)>>
           /\ lastAnswer' = env.text
           /\ uniformFailure' =
                 /\ ~out.res.passed
                 /\ \/ attempt = 0
                    \/ /\ uniformFailure
                       /\ out.res.failReason = lastDispatch[1].failReason
           /\ firstPass' =
                 IF ~out.thrown /\ out.res.passed /\ firstPass[i] = 0
                 THEN [firstPass EXCEPT ![i] = dispatchCount[i] + 1]
                 ELSE firstPass
           /\ IF out.thrown
              THEN /\ pc' = "raised"
                   /\ UNCHANGED <<variables, stepResults, results, i, attempt,
                                  stepResult, returned, captureCount>>
              ELSE IF ~leaves
              THEN /\ attempt' = attempt + 1
                   /\ stepResult' = <<r>>
                   /\ UNCHANGED <<variables, stepResults, results, i, pc,
                                  returned, captureCount>>
              ELSE /\ variables' = Capture(step, r, variables)
                   /\ captureCount' =
                         IF Captures(step, r)
                         THEN [captureCount EXCEPT ![i] = @ + 1]
                         ELSE captureCount
                   /\ stepResults' = MapSet(stepResults, step.id, r)
                   /\ results' = recorded
                   /\ stepResult' = <<>>
                   /\ attempt' = 0
                   /\ IF aborts
                      THEN /\ returned' = <<[workflowName |-> workflow.name,
                                             passed |-> FALSE,
                                             steps |-> recorded,
                                             abortedAt |-> <<step.id>>]>>
                           /\ pc' = "done"
                           /\ i' = i
                      ELSE /\ i' = i + 1
                           /\ UNCHANGED <<pc, returned>>
    /\ UNCHANGED <<workflow, cancelled, text, applied, runs, maps, toolCalls, effects, agentLoop, briefing>>

Next ==
    \/ Cancel
    \/ Complete
    \/ Skip
    \/ \E env \in Envs : Dispatch(env)

Spec == Init /\ [][Next]_vars

\* A step of run() itself: the caller's cancellation is not one.
Progress ==
    \/ Complete
    \/ Skip
    \/ \E env \in Envs : Dispatch(env)

\* run() on the definitions made of the shell and agent steps explored:
\* every failure policy and both kinds of condition occur among them.
FairInit ==
    /\ workflow \in FairWorkflows
    /\ \E g \in GitEnvs : variables = populateGitVariables(g)
    /\ stepResults = <<>>
    /\ results = <<>>
    /\ i = 1
    /\ attempt = 0
    /\ stepResult = <<>>
    /\ cancelled = FALSE
    /\ pc = "loop"
    /\ returned = <<>>
    /\ dispatchCount = [k \in Positions |-> 0]
    /\ conditionChecks = [k \in Positions |-> 0]
    /\ firstPass = [k \in Positions |-> 0]
    /\ lastDispatch = <<>>
    /\ captureCount = [k \in Positions |-> 0]
    /\ uniformFailure = FALSE
    /\ tokenChecks = [k \in Positions |-> 0]
    /\ lastCall = <<>>
    /\ lastAnswer = <<>>
    /\ runs = [r \in RunIds |-> IdleRun]
    /\ maps = <<>>
    /\ toolCalls = [c \in CallIds |-> IdleCall]
    /\ effects = <<>>
    /\ agentLoop = IdleLoop
    /\ briefing = IdleBriefing
    /\ text = <<>>
    /\ applied = <<>>

\* run() goes on: every call of runStep returns, and the code between two
\* awaits runs to its end, so run() does not stay in its loop for ever
\* without taking a step (one of its steps can be taken whenever
\* pc = "loop").  Nothing obliges the caller to cancel.
FairSpec ==
    /\ FairInit
    /\ [][Next]_vars
    /\ ([]<>(pc # "loop") \/ []<><<Progress>>_vars)

\* run() on the definitions that differ by the failure policy of their
\* first step.
PolicyInit ==
    /\ workflow \in PolicyWorkflows
    /\ \E g \in GitEnvs : variables = populateGitVariables(g)
    /\ stepResults = <<>>
    /\ results = <<>>
    /\ i = 1
    /\ attempt = 0
    /\ stepResult = <<>>
    /\ cancelled = FALSE
    /\ pc = "loop"
    /\ returned = <<>>
    /\ dispatchCount = [k \in Positions |-> 0]
    /\ conditionChecks = [k \in Positions |-> 0]
    /\ firstPass = [k \in Positions |-> 0]
    /\ lastDispatch = <<>>
    /\ captureCount = [k \in Positions |-> 0]
    /\ uniformFailure = FALSE
    /\ tokenChecks = [k \in Positions |-> 0]
    /\ lastCall = <<>>
    /\ lastAnswer = <<>>
    /\ runs = [r \in RunIds |-> IdleRun]
    /\ maps = <<>>
    /\ toolCalls = [c \in CallIds |-> IdleCall]
    /\ effects = <<>>
    /\ agentLoop = IdleLoop
    /\ briefing = IdleBriefing
    /\ text = <<>>
    /\ applied = <<>>

PolicySpec == PolicyInit /\ [][Next]_vars

\* run() on the definitions whose second step reads whether the first was
\* skipped.
SkipInit ==
    /\ workflow \in SkipWorkflows
    /\ \E g \in GitEnvs : variables = populateGitVariables(g)
    /\ stepResults = <<>>
    /\ results = <<>>
    /\ i = 1
    /\ attempt = 0
    /\ stepResult = <<>>
    /\ cancelled = FALSE
    /\ pc = "loop"
    /\ returned = <<>>
    /\ dispatchCount = [k \in Positions |-> 0]
    /\ conditionChecks = [k \in Positions |-> 0]
    /\ firstPass = [k \in Positions |-> 0]
    /\ lastDispatch = <<>>
    /\ captureCount = [k \in Positions |-> 0]
    /\ uniformFailure = FALSE
    /\ tokenChecks = [k \in Positions |-> 0]
    /\ lastCall = <<>>
    /\ lastAnswer = <<>>
    /\ runs = [r \in RunIds |-> IdleRun]
    /\ maps = <<>>
    /\ toolCalls = [c \in CallIds |-> IdleCall]
    /\ effects = <<>>
    /\ agentLoop = IdleLoop
    /\ briefing = IdleBriefing
    /\ text = <<>>
    /\ applied = <<>>

SkipSpec == SkipInit /\ [][Next]_vars

\* -------------------------------------------------------------------------
\* The text functions on their own: one call of interpolate, of the
\* command interpolation of runShellStep, or of resolveInput, on a text and
\* a store drawn from the sets explored.
\* -------------------------------------------------------------------------

runVars == <<workflow, stepResults, results, i, attempt, stepResult, cancelled,
             pc, returned, history, runs, maps, toolCalls, effects, agentLoop, briefing>>

TextInit ==
    /\ text \in Texts
    /\ variables \in Stores
    /\ applied = <<>>
    /\ workflow = [name |-> "wf", steps |-> <<>>]
    /\ stepResults = <<>>
    /\ results = <<>>
    /\ i = 1
    /\ attempt = 0
    /\ stepResult = <<>>
    /\ cancelled = FALSE
    /\ pc = "call"
    /\ returned = <<>>
    /\ dispatchCount = [k \in Positions |-> 0]
    /\ conditionChecks = [k \in Positions |-> 0]
    /\ firstPass = [k \in Positions |-> 0]
    /\ lastDispatch = <<>>
    /\ captureCount = [k \in Positions |-> 0]
    /\ uniformFailure = FALSE
    /\ tokenChecks = [k \in Positions |-> 0]
    /\ lastCall = <<>>
    /\ lastAnswer = <<>>
    /\ runs = [r \in RunIds |-> IdleRun]
    /\ maps = <<>>
    /\ toolCalls = [c \in CallIds |-> IdleCall]
    /\ effects = <<>>
    /\ agentLoop = IdleLoop
    /\ briefing = IdleBriefing

\* interpolate(text, variables)
Interpolate ==
    /\ applied = <<>>
    /\ applied' = <<[op |-> "interpolate", git |-> GitFails,
                     out |-> interpolate(text, variables)]>>
    /\ UNCHANGED <<text, variables, runVars>>

\* The command of a shell step whose command is text.
InterpolateCommand ==
    /\ applied = <<>>
    /\ applied' = <<[op |-> "command", git |-> GitFails,
                     out |-> ShellCommand([StepBase EXCEPT !.command = text],
                                          variables)]>>
    /\ UNCHANGED <<text, variables, runVars>>

\* resolveInput(text, variables), git answering g to a built-in command.
ResolveInput(g) ==
    /\ applied = <<>>
    /\ applied' = <<[op |-> "input", git |-> g,
                     out |-> resolveInput(text, variables, g)]>>
    /\ UNCHANGED <<text, variables, runVars>>

\* The prompt of a prompt step whose file has the body text and whose
\* input is {{x}}.
BuildPrompt ==
    /\ applied = <<>>
    /\ applied' = <<[op |-> "prompt", git |-> GitFails,
                     out |-> FullPrompt(text,
                                [StepBase EXCEPT !.type = "prompt",
                                    !.input = <<"{", "{", "x", "}", "}">>],
                                variables, EnvBase)]>>
    /\ UNCHANGED <<text, variables, runVars>>

\* The label of a step whose description is text.
BuildLabel ==
    /\ applied = <<>>
    /\ applied' = <<[op |-> "label", git |-> GitFails,
                     out |-> StepLabel([StepBase EXCEPT !.id = "s1",
                                                       !.description = text],
                                       variables)]>>
    /\ UNCHANGED <<text, variables, runVars>>

TextNext ==
    \/ Interpolate
    \/ InterpolateCommand
    \/ \E g \in TextGits : ResolveInput(g)
    \/ BuildPrompt
    \/ BuildLabel

TextSpec == TextInit /\ [][TextNext]_vars

\* -------------------------------------------------------------------------
\* The seeding of the built-in variables on its own: one call of
\* detectPlatform or of populateGitVariables for a remote URL (held in
\* text) drawn from the set explored.
\* -------------------------------------------------------------------------

GitInit ==
    /\ text \in Urls
    /\ applied = <<>>
    /\ variables = <<>>
    /\ stepResults = <<>>
    /\ workflow = [name |-> "wf", steps |-> <<>>]
    /\ results = <<>>
    /\ i = 1
    /\ attempt = 0
    /\ stepResult = <<>>
    /\ cancelled = FALSE
    /\ pc = "call"
    /\ returned = <<>>
    /\ dispatchCount = [k \in Positions |-> 0]
    /\ conditionChecks = [k \in Positions |-> 0]
    /\ firstPass = [k \in Positions |-> 0]
    /\ lastDispatch = <<>>
    /\ captureCount = [k \in Positions |-> 0]
    /\ uniformFailure = FALSE
    /\ tokenChecks = [k \in Positions |-> 0]
    /\ lastCall = <<>>
    /\ lastAnswer = <<>>
    /\ runs = [r \in RunIds |-> IdleRun]
    /\ maps = <<>>
    /\ toolCalls = [c \in CallIds |-> IdleCall]
    /\ effects = <<>>
    /\ agentLoop = IdleLoop
    /\ briefing = IdleBriefing

\* detectPlatform(text)
DetectPlatform ==
    /\ applied = <<>>
    /\ applied' = <<[op |-> "platform", git |-> GitFails,
                     out |-> detectPlatform(text)]>>
    /\ UNCHANGED <<text, variables, runVars>>

\* populateGitVariables(variables) on an empty store, git answering g.
PopulateGitVariables(g) ==
    /\ applied = <<>>
    /\ applied' = <<[op |-> "seed", git |-> g, out |-> populateGitVariables(g)]>>
    /\ variables' = populateGitVariables(g)
    /\ UNCHANGED <<text, runVars>>

GitNext ==
    \/ DetectPlatform
    \/ \E g \in SeedGits(text) : PopulateGitVariables(g)

GitSpec == GitInit /\ [][GitNext]_vars

\* -------------------------------------------------------------------------
\* Discovery on its own: one call of listWorkflows or of loadWorkflow on a
\* directory (held in text) drawn from the set explored.
\* -------------------------------------------------------------------------

DirInit ==
    /\ text \in Directories
    /\ applied = <<>>
    /\ variables = <<>>
    /\ stepResults = <<>>
    /\ workflow = [name |-> "wf", steps |-> <<>>]
    /\ results = <<>>
    /\ i = 1
    /\ attempt = 0
    /\ stepResult = <<>>
    /\ cancelled = FALSE
    /\ pc = "call"
    /\ returned = <<>>
    /\ dispatchCount = [k \in Positions |-> 0]
    /\ conditionChecks = [k \in Positions |-> 0]
    /\ firstPass = [k \in Positions |-> 0]
    /\ lastDispatch = <<>>
    /\ captureCount = [k \in Positions |-> 0]
    /\ uniformFailure = FALSE
    /\ tokenChecks = [k \in Positions |-> 0]
    /\ lastCall = <<>>
    /\ lastAnswer = <<>>
    /\ runs = [r \in RunIds |-> IdleRun]
    /\ maps = <<>>
    /\ toolCalls = [c \in CallIds |-> IdleCall]
    /\ effects = <<>>
    /\ agentLoop = IdleLoop
    /\ briefing = IdleBriefing

\* listWorkflows()
ListWorkflows ==
    /\ applied = <<>>
    /\ applied' = <<[op |-> "list", git |-> <<>>, out |-> listWorkflows(text)]>>
    /\ UNCHANGED <<text, variables, runVars>>

\* loadWorkflow(name)
LoadWorkflow(name) ==
    /\ applied = <<>>
    /\ applied' = <<[op |-> "load", git |-> name, out |-> loadWorkflow(text, name)]>>
    /\ UNCHANGED <<text, variables, runVars>>

DirNext ==
    \/ ListWorkflows
    \/ \E name \in RequestedNames : LoadWorkflow(name)

DirSpec == DirInit /\ [][DirNext]_vars

\* -------------------------------------------------------------------------
\* Two calls of run() on one engine.  A call runs without interruption up
\* to an await; the other call may run at each await.  run() awaits
\* runStep: CallStep is the stretch up to the await (loop head and the call
\* of runStep, which reads the store), ReturnStep the stretch after it
\* (retry loop, capture, ledger, failure handling).
\* -------------------------------------------------------------------------

\* A plausible slip: the two maps are fields of the engine, created once.
NewMapPerEngine(heap, field) ==
    IF Len(heap) >= field THEN [ref |-> field, heap |-> heap]
    ELSE [ref |-> Len(heap) + 1, heap |-> Append(heap, <<>>)]

\* new Map(): a new object.  field tells which local it is for (1:
\* variables, 2: stepResults).
NewMap(heap, field) == [ref |-> Len(heap) + 1, heap |-> Append(heap, <<>>)]

\* populateGitVariables(variables) on a store that may hold entries.
Seed(store, g) ==
    LET seeds == populateGitVariables(g)
    IN  [x \in DOMAIN store \cup DOMAIN seeds |->
            IF x \in DOMAIN seeds THEN seeds[x] ELSE store[x]]

PairInit ==
    /\ runs = [r \in RunIds |-> IdleRun]
    /\ maps = <<>>
    /\ toolCalls = [c \in CallIds |-> IdleCall]
    /\ effects = <<>>
    /\ agentLoop = IdleLoop
    /\ briefing = IdleBriefing
    /\ text = <<>>
    /\ applied = <<>>
    /\ variables = <<>>
    /\ stepResults = <<>>
    /\ workflow = [name |-> "wf", steps |-> <<>>]
    /\ results = <<>>
    /\ i = 1
    /\ attempt = 0
    /\ stepResult = <<>>
    /\ cancelled = FALSE
    /\ pc = "call"
    /\ returned = <<>>
    /\ dispatchCount = [k \in Positions |-> 0]
    /\ conditionChecks = [k \in Positions |-> 0]
    /\ firstPass = [k \in Positions |-> 0]
    /\ lastDispatch = <<>>
    /\ captureCount = [k \in Positions |-> 0]
    /\ uniformFailure = FALSE
    /\ tokenChecks = [k \in Positions |-> 0]
    /\ lastCall = <<>>
    /\ lastAnswer = <<>>

single == <<workflow, variables, stepResults, results, i, attempt, stepResult,
            cancelled, pc, returned, history, text, applied, toolCalls, effects, agentLoop, briefing>>

\* run(workflow, stream, token) is called: lines 84-103.
StartRun(r, wf, g) ==
    /\ runs[r].pc = "idle"
    /\ LET a == NewMap(maps, 1)
           b == NewMap(a.heap, 2)
           other == runs[3 - r]
       IN  /\ maps' = [b.heap EXCEPT ![a.ref] = Seed(@, g)]
           /\ runs' = [runs EXCEPT ![r] =
                 [@ EXCEPT !.pc = "loop", !.workflow = wf,
                           !.variables = a.ref, !.stepResults = b.ref,
                           !.seed = <<g>>,
                           !.startedWhile = <<[pc |-> other.pc,
                                               recorded |-> Len(other.results)]>>]]
    /\ UNCHANGED single

\* The token of the call is cancelled by its caller.
CancelRun(r) ==
    /\ runs[r].pc \in {"loop", "await"}
    /\ ~runs[r].cancelled
    /\ runs' = [runs EXCEPT ![r].cancelled = TRUE]
    /\ UNCHANGED <<maps, single>>

\* The loop of the call ends and run() returns the aggregate.
CompleteRun(r) ==
    LET run == runs[r] IN
    /\ run.pc = "loop"
    /\ run.attempt = 0
    /\ run.i \notin DOMAIN run.workflow.steps \/ ~LoopHeadProceeds(run.cancelled)
    /\ runs' = [runs EXCEPT ![r] =
          [@ EXCEPT !.pc = "done",
                    !.returned = <<[workflowName |-> run.workflow.name,
                                    passed |-> allPassed(run.results),
                                    steps |-> run.results,
                                    abortedAt |-> <<>>]>>]]
    /\ UNCHANGED <<maps, single>>

\* The condition of the step of the call is present and false.
SkipStep(r) ==
    LET run == runs[r] IN
    /\ run.pc = "loop"
    /\ run.attempt = 0
    /\ run.i \in DOMAIN run.workflow.steps
    /\ LoopHeadProceeds(run.cancelled)
    /\ LET step == run.workflow.steps[run.i] IN
       /\ ~ConditionMet(step, maps[run.stepResults])
       /\ maps' = [maps EXCEPT ![run.stepResults] =
                      MapSet(@, step.id, SkippedResult(step))]
       /\ runs' = [runs EXCEPT ![r] =
             [@ EXCEPT !.results = Append(@, SkippedResult(step)), !.i = @ + 1]]
    /\ UNCHANGED single

\* The call reaches  await this.runStep(...)  for its current step.
CallStep(r, env) ==
    LET run == runs[r] IN
    /\ run.pc = "loop"
    /\ run.i \in DOMAIN run.workflow.steps
    /\ LET step == run.workflow.steps[run.i] IN
       /\ run.attempt > 0
          \/ (LoopHeadProceeds(run.cancelled) /\ ConditionMet(step, maps[run.stepResults]))
       /\ runs' = [runs EXCEPT ![r] =
             [@ EXCEPT !.pc = "await",
                       !.pending = <<runStep(step, maps[run.variables], env)>>]]
    /\ UNCHANGED <<maps, single>>

\* The awaited runStep returns to the call.
ReturnStep(r) ==
    LET run == runs[r] IN
    /\ run.pc = "await"
    /\ LET step == run.workflow.steps[run.i]
           maxRetries == parseRetry(step.on_fail)
           out == run.pending[1]
           res == AssignStepResult(run.stepResult, out.res)
           leaves == LeavesRetryLoop(out.res, run.attempt, maxRetries)
           recorded == Append(run.results, res)
           aborts == ~res.passed /\ AbortsOnFailure(step.on_fail)
       IN  IF out.thrown
           THEN /\ runs' = [runs EXCEPT ![r] = [@ EXCEPT !.pc = "raised", !.pending = <<>>]]
                /\ maps' = maps
           ELSE IF ~leaves
           THEN /\ runs' = [runs EXCEPT ![r] =
                      [@ EXCEPT !.pc = "loop", !.pending = <<>>,
                                !.attempt = @ + 1, !.stepResult = <<res>>]]
                /\ maps' = maps
           ELSE /\ maps' = [maps EXCEPT
                      ![run.variables] = Capture(step, res, @),
                      ![run.stepResults] = MapSet(@, step.id, res)]
                /\ runs' = [runs EXCEPT ![r] =
                      [@ EXCEPT !.pending = <<>>, !.results = recorded,
                                !.stepResult = <<>>, !.attempt = 0,
                                !.i = IF aborts THEN @ ELSE @ + 1,
                                !.pc = IF aborts THEN "done" ELSE "loop",
                                !.returned =
                                    IF aborts
                                    THEN <<[workflowName |-> run.workflow.name,
                                            passed |-> FALSE,
                                            steps |-> recorded,
                                            abortedAt |-> <<step.id>>]>>
                                    ELSE @]]
    /\ UNCHANGED single

PairNext ==
    \E r \in RunIds :
        \/ \E wf \in PairWorkflows, g \in GitEnvs : StartRun(r, wf, g)
        \/ CancelRun(r)
        \/ CompleteRun(r)
        \/ SkipStep(r)
        \/ \E env \in PairEnvs : CallStep(r, env)
        \/ ReturnStep(r)

PairSpec == PairInit /\ [][PairNext]_vars

\* -------------------------------------------------------------------------
\* A shell step on its own: one call of runStep for a shell step (the one
\* step of workflow) with a store drawn from the set explored; the command
\* writes text and exits normally or fails.
\* -------------------------------------------------------------------------

ShellInit ==
    /\ workflow \in ShellWorkflows
    /\ variables \in Stores
    /\ text \in StderrTexts
    /\ applied = <<>>
    /\ stepResults = <<>>
    /\ results = <<>>
    /\ i = 1
    /\ attempt = 0
    /\ stepResult = <<>>
    /\ cancelled = FALSE
    /\ pc = "call"
    /\ returned = <<>>
    /\ dispatchCount = [k \in Positions |-> 0]
    /\ conditionChecks = [k \in Positions |-> 0]
    /\ firstPass = [k \in Positions |-> 0]
    /\ lastDispatch = <<>>
    /\ captureCount = [k \in Positions |-> 0]
    /\ uniformFailure = FALSE
    /\ tokenChecks = [k \in Positions |-> 0]
    /\ lastCall = <<>>
    /\ lastAnswer = <<>>
    /\ runs = [r \in RunIds |-> IdleRun]
    /\ maps = <<>>
    /\ toolCalls = [c \in CallIds |-> IdleCall]
    /\ effects = <<>>
    /\ agentLoop = IdleLoop
    /\ briefing = IdleBriefing

\* runStep(step, variables, ...) for the shell step; the command writes
\* text to stdout and exits normally, or fails with text on stderr.
RunShellStep(throws) ==
    /\ applied = <<>>
    /\ LET env == [EnvBase EXCEPT !.text = text, !.throws = throws]
       IN  applied' = <<[op |-> "shell", git |-> env,
                         out |-> runStep(workflow.steps[1], variables, env)]>>
    /\ UNCHANGED <<text, variables, runVars>>

ShellNext == \E throws \in BOOLEAN : RunShellStep(throws)

ShellSpec == ShellInit /\ [][ShellNext]_vars

\* -------------------------------------------------------------------------
\* ToolRegistry.invokeWithConfirmation, called from the agentic loop, from
\* a command or by McpServerManager.callTool.  A call runs up to the await
\* of the modal dialog (CallTool) and goes on when the user has answered
\* (AnswerDialog); other calls may run meanwhile.
\* -------------------------------------------------------------------------

\* What a call returns.
UnknownTool(toolName) ==
    [kind |-> "result", success |-> FALSE, output |-> <<"Unknown tool: ", toolName>>]
Undefined == [kind |-> "undefined", success |-> FALSE, output |-> <<>>]
ToolResult(success) == [kind |-> "result", success |-> success, output |-> <<"o">>]
\* callTool returns before it reaches the invoker: the MCP server does not
\* know the tool, or no invoker is wired yet.
McpRefused == [kind |-> "refused", success |-> FALSE, output |-> <<>>]

\* A plausible slip: only the Cancel button stops the tool.
ConfirmedUnlessCancel(answer) == answer # "Cancel"

\* if (answer !== 'Allow') return undefined;
Confirmed(answer) == answer = "Allow"

ToolInit ==
    /\ toolCalls = [c \in CallIds |-> IdleCall]
    /\ effects = <<>>
    /\ agentLoop = IdleLoop
    /\ briefing = IdleBriefing
    /\ runs = [r \in RunIds |-> IdleRun]
    /\ maps = <<>>
    /\ text = <<>>
    /\ applied = <<>>
    /\ variables = <<>>
    /\ stepResults = <<>>
    /\ workflow = [name |-> "wf", steps |-> <<>>]
    /\ results = <<>>
    /\ i = 1
    /\ attempt = 0
    /\ stepResult = <<>>
    /\ cancelled = FALSE
    /\ pc = "call"
    /\ returned = <<>>
    /\ dispatchCount = [k \in Positions |-> 0]
    /\ conditionChecks = [k \in Positions |-> 0]
    /\ firstPass = [k \in Positions |-> 0]
    /\ lastDispatch = <<>>
    /\ captureCount = [k \in Positions |-> 0]
    /\ uniformFailure = FALSE
    /\ tokenChecks = [k \in Positions |-> 0]
    /\ lastCall = <<>>
    /\ lastAnswer = <<>>

others == <<workflow, variables, stepResults, results, i, attempt, stepResult,
            cancelled, pc, returned, history, text, applied, runs, maps,
            agentLoop, briefing>>

\* A caller asks for the tool.  From the MCP server the request passes
\* callTool first, which refuses it unless it knows the tool and the
\* invoker is wired (reaches); then invokeWithConfirmation runs up to the
\* dialog.
CallTool(c, via, toolName, reaches) ==
    /\ toolCalls[c].pc = "idle"
    /\ toolCalls' = [toolCalls EXCEPT ![c] =
          IF via = "mcp" /\ ~reaches
          THEN [@ EXCEPT !.pc = "returned", !.via = via, !.tool = toolName,
                         !.result = <<McpRefused>>]
          ELSE IF toolName \notin Registry
          THEN [@ EXCEPT !.pc = "returned", !.via = via, !.tool = toolName,
                         !.result = <<UnknownTool(toolName)>>]
          ELSE [@ EXCEPT !.pc = "dialog", !.via = via, !.tool = toolName]]
    /\ UNCHANGED <<effects, others>>

\* The user answers the dialog of the call; on 'Allow' tool.invoke runs and
\* the call returns its result.
AnswerDialog(c, answer, success) ==
    /\ toolCalls[c].pc = "dialog"
    /\ IF Confirmed(answer)
       THEN /\ effects' = Append(effects, [call |-> c, tool |-> toolCalls[c].tool])
            /\ toolCalls' = [toolCalls EXCEPT ![c] =
                  [@ EXCEPT !.pc = "returned", !.answer = <<answer>>,
                            !.result = <<ToolResult(success)>>]]
       ELSE /\ effects' = effects
            /\ toolCalls' = [toolCalls EXCEPT ![c] =
                  [@ EXCEPT !.pc = "returned", !.answer = <<answer>>,
                            !.result = <<Undefined>>]]
    /\ UNCHANGED others

ToolNext ==
    \E c \in CallIds :
        \/ \E via \in Callers, toolName \in ToolNames, reaches \in BOOLEAN :
              CallTool(c, via, toolName, reaches)
        \/ \E answer \in DialogAnswers, success \in BOOLEAN :
              AnswerDialog(c, answer, success)

ToolSpec == ToolInit /\ [][ToolNext]_vars

\* -------------------------------------------------------------------------
\* ToolRegistry.runAgenticLoop: the bounded loop of requests to the model
\* and confirmed tool invocations.  The token is the variable cancelled;
\* the executions of tool.invoke are logged in effects, with the number of
\* the iteration as the call.
\* -------------------------------------------------------------------------

\* A plausible slip: the loop runs while i <= maxIter.
LoopContinuesInclusive(iter, maxIter) == iter <= maxIter

\* for (let i = 0; i < maxIter; i++)
LoopContinues(iter, maxIter) == iter < maxIter

\* What the loop body makes of a parsed reply: "final" (JSON.parse threw,
\* break), "raise" (decision is null: reading decision.done throws),
\* "done" (break), "tool" (decision.tool && decision.input), "unexpected"
\* (break).
Decide(reply) ==
    CASE reply.kind = "text" -> "final"
      [] reply.kind = "null" -> "raise"
      [] reply.done -> "done"
      [] reply.tool # "" /\ reply.input -> "tool"
      [] OTHER -> "unexpected"

LoopInit ==
    /\ agentLoop = IdleLoop
    /\ briefing = IdleBriefing
    /\ toolCalls = [c \in CallIds |-> IdleCall]
    /\ effects = <<>>
    /\ runs = [r \in RunIds |-> IdleRun]
    /\ maps = <<>>
    /\ text = <<>>
    /\ applied = <<>>
    /\ variables = <<>>
    /\ stepResults = <<>>
    /\ workflow = [name |-> "wf", steps |-> <<>>]
    /\ results = <<>>
    /\ i = 1
    /\ attempt = 0
    /\ stepResult = <<>>
    /\ cancelled = FALSE
    /\ pc = "call"
    /\ returned = <<>>
    /\ dispatchCount = [k \in Positions |-> 0]
    /\ conditionChecks = [k \in Positions |-> 0]
    /\ firstPass = [k \in Positions |-> 0]
    /\ lastDispatch = <<>>
    /\ captureCount = [k \in Positions |-> 0]
    /\ uniformFailure = FALSE
    /\ tokenChecks = [k \in Positions |-> 0]
    /\ lastCall = <<>>
    /\ lastAnswer = <<>>

loopFrame == <<workflow, variables, stepResults, results, i, attempt, stepResult,
               pc, returned, history, text, applied, runs, maps, toolCalls,
               briefing>>

\* runAgenticLoop is called: it reads the setting and selects a model; with
\* no model it returns at once.
RunAgenticLoop(maxIter, hasModel) ==
    /\ agentLoop.pc = "idle"
    /\ agentLoop' = [agentLoop EXCEPT !.maxIter = maxIter,
                                      !.messages = 2,
                                      !.pc = IF hasModel THEN "head" ELSE "returned"]
    /\ UNCHANGED <<cancelled, effects, loopFrame>>

\* The caller cancels the token while the loop is running.
CancelLoop ==
    /\ agentLoop.pc \in {"head", "request", "dialog"}
    /\ ~cancelled
    /\ cancelled' = TRUE
    /\ UNCHANGED <<agentLoop, effects, loopFrame>>

\* The head of an iteration: the loop condition, the token, and the request
\* sent to the model.
LoopHead ==
    /\ agentLoop.pc = "head"
    /\ agentLoop' =
          IF LoopContinues(agentLoop.i, agentLoop.maxIter) /\ ~cancelled
          THEN [agentLoop EXCEPT !.pc = "request", !.requests = @ + 1]
          ELSE [agentLoop EXCEPT !.pc = "returned"]
    /\ UNCHANGED <<cancelled, effects, loopFrame>>

\* The request fails (sendRequest or the stream of the response throws):
\* the error leaves runAgenticLoop.
RequestFails ==
    /\ agentLoop.pc = "request"
    /\ agentLoop' = [agentLoop EXCEPT !.pc = "raised"]
    /\ UNCHANGED <<cancelled, effects, loopFrame>>

\* The model has replied: the reply is parsed and acted on, up to the dialog
\* of invokeWithConfirmation.  An unknown tool gives a failure result at
\* once, which is fed back like any other result.
ModelReplies(reply) ==
    /\ agentLoop.pc = "request"
    /\ LET decision == Decide(reply)
       IN  agentLoop' =
             CASE decision = "raise" ->
                    [agentLoop EXCEPT !.pc = "raised", !.reply = <<reply>>,
                                      !.answer = <<>>]
               [] decision \in {"final", "done", "unexpected"} ->
                    [agentLoop EXCEPT !.pc = "returned", !.reply = <<reply>>,
                                      !.answer = <<>>]
               [] decision = "tool" /\ reply.tool \notin Registry ->
                    [agentLoop EXCEPT !.pc = "head", !.reply = <<reply>>,
                                      !.answer = <<>>, !.i = @ + 1,
                                      !.messages = @ + 2]
               [] OTHER ->
                    [agentLoop EXCEPT !.pc = "dialog", !.reply = <<reply>>,
                                      !.answer = <<>>]
    /\ UNCHANGED <<cancelled, effects, loopFrame>>

\* The user answers the dialog: on 'Allow' the tool is invoked and its
\* result (a success or a failure) becomes the observation of the next
\* iteration, unless invoke throws; on anything else the loop stops.
AnswerLoopDialog(answer, throws) ==
    /\ agentLoop.pc = "dialog"
    /\ IF Confirmed(answer)
       THEN /\ effects' = Append(effects, [call |-> agentLoop.i + 1,
                                           tool |-> agentLoop.reply[1].tool])
            /\ agentLoop' =
                  IF throws
                  THEN [agentLoop EXCEPT !.pc = "raised", !.answer = <<answer>>]
                  ELSE [agentLoop EXCEPT !.pc = "head", !.answer = <<answer>>,
                                         !.i = @ + 1, !.messages = @ + 2]
       ELSE /\ effects' = effects
            /\ agentLoop' = [agentLoop EXCEPT !.pc = "returned",
                                              !.answer = <<answer>>]
    /\ UNCHANGED <<cancelled, loopFrame>>

LoopNext ==
    \/ \E maxIter \in 0..MaxIterations, hasModel \in BOOLEAN :
          RunAgenticLoop(maxIter, hasModel)
    \/ CancelLoop
    \/ LoopHead
    \/ RequestFails
    \/ \E reply \in Replies : ModelReplies(reply)
    \/ \E answer \in DialogAnswers, throws \in BOOLEAN :
          AnswerLoopDialog(answer, throws)

LoopSpec == LoopInit /\ [][LoopNext]_vars

\* -------------------------------------------------------------------------
\* NotificationManager: maybeShowDailySummary at startup, forceSummary from
\* the command, the reloads of the extension host and the passing days.
\* -------------------------------------------------------------------------

\* if (last === today) return;
AlreadyShown(last, today) == last = <<today>>

\* A plausible slip: the date is not stored ahead of the summary.
MarkSkipped(last, today) == last

\* await ctx.globalState.update(STATE_KEY, today), ahead of runSummary.
Mark(last, today) == <<today>>

BriefInit ==
    /\ briefing = IdleBriefing
    /\ agentLoop = IdleLoop
    /\ toolCalls = [c \in CallIds |-> IdleCall]
    /\ effects = <<>>
    /\ runs = [r \in RunIds |-> IdleRun]
    /\ maps = <<>>
    /\ text = <<>>
    /\ applied = <<>>
    /\ variables = <<>>
    /\ stepResults = <<>>
    /\ workflow = [name |-> "wf", steps |-> <<>>]
    /\ results = <<>>
    /\ i = 1
    /\ attempt = 0
    /\ stepResult = <<>>
    /\ cancelled = FALSE
    /\ pc = "call"
    /\ returned = <<>>
    /\ dispatchCount = [k \in Positions |-> 0]
    /\ conditionChecks = [k \in Positions |-> 0]
    /\ firstPass = [k \in Positions |-> 0]
    /\ lastDispatch = <<>>
    /\ captureCount = [k \in Positions |-> 0]
    /\ uniformFailure = FALSE
    /\ tokenChecks = [k \in Positions |-> 0]
    /\ lastCall = <<>>
    /\ lastAnswer = <<>>

briefFrame == <<workflow, variables, stepResults, results, i, attempt, stepResult,
                cancelled, pc, returned, history, text, applied, runs, maps,
                toolCalls, effects, agentLoop>>

\* maybeShowDailySummary is called at startup: it reads the date and the
\* stored date, returns if they are equal, and else asks globalState to
\* store the date.
MaybeShowDailySummary ==
    /\ briefing.pc = "idle"
    /\ briefing' =
          IF AlreadyShown(briefing.stored, briefing.clock)
          THEN [briefing EXCEPT !.skipped = TRUE]
          ELSE [briefing EXCEPT !.pc = "marked", !.today = briefing.clock,
                                !.stored = Mark(@, briefing.clock)]
    /\ UNCHANGED briefFrame

\* The update has reached the disk and its promise resolves: runSummary is
\* called.
FetchSummary ==
    /\ briefing.pc = "marked"
    /\ briefing' = [briefing EXCEPT !.pc = "summary", !.durable = briefing.stored,
                                    !.shown[briefing.today] = @ + 1]
    /\ UNCHANGED briefFrame

\* The update is rejected: the error leaves maybeShowDailySummary before
\* runSummary is called.
UpdateFails ==
    /\ briefing.pc = "marked"
    /\ briefing' = [briefing EXCEPT !.pc = "idle"]
    /\ UNCHANGED briefFrame

\* runSummary returns or throws; the error is caught and logged.
SummaryEnds(fails) ==
    /\ briefing.pc = "summary"
    /\ briefing' = [briefing EXCEPT !.pc = "idle", !.failed = @ \/ fails]
    /\ UNCHANGED briefFrame

\* The extension host reloads: the call in progress is lost and globalState
\* is read again from the disk; an update in progress may or may not have
\* reached it.
Reload(written) ==
    /\ briefing' =
          [briefing EXCEPT !.pc = "idle", !.reloaded = TRUE,
                           !.durable = IF briefing.pc = "marked" /\ written
                                       THEN briefing.stored ELSE @,
                           !.stored = IF briefing.pc = "marked" /\ written
                                      THEN @ ELSE briefing.durable]
    /\ UNCHANGED briefFrame

\* forceSummary: runSummary is called whatever the stored date, and its
\* error is shown.
ForceSummary(fails) ==
    /\ Len(briefing.forced) < MaxForced
    /\ briefing' = [briefing EXCEPT
          !.forced = Append(@, [ran |-> TRUE, failed |-> fails,
                                last |-> briefing.stored])]
    /\ UNCHANGED briefFrame

\* Midnight passes.
NextDay ==
    /\ briefing.clock < MaxDays
    /\ briefing' = [briefing EXCEPT !.clock = @ + 1]
    /\ UNCHANGED briefFrame

BriefNext ==
    \/ MaybeShowDailySummary
    \/ FetchSummary
    \/ UpdateFails
    \/ \E fails \in BOOLEAN : SummaryEnds(fails)
    \/ \E written \in BOOLEAN : Reload(written)
    \/ \E fails \in BOOLEAN : ForceSummary(fails)
    \/ NextDay

BriefSpec == BriefInit /\ [][BriefNext]_vars

\* -------------------------------------------------------------------------
\* evaluateCondition on its own: one call on a condition (held in text) and
\* a ledger (held in stepResults) drawn from the sets explored.
\* -------------------------------------------------------------------------

CondInit ==
    /\ text \in Conditions
    /\ stepResults \in Ledgers
    /\ applied = <<>>
    /\ variables = <<>>
    /\ workflow = [name |-> "wf", steps |-> <<>>]
    /\ results = <<>>
    /\ i = 1
    /\ attempt = 0
    /\ stepResult = <<>>
    /\ cancelled = FALSE
    /\ pc = "call"
    /\ returned = <<>>
    /\ dispatchCount = [k \in Positions |-> 0]
    /\ conditionChecks = [k \in Positions |-> 0]
    /\ firstPass = [k \in Positions |-> 0]
    /\ lastDispatch = <<>>
    /\ captureCount = [k \in Positions |-> 0]
    /\ uniformFailure = FALSE
    /\ tokenChecks = [k \in Positions |-> 0]
    /\ lastCall = <<>>
    /\ lastAnswer = <<>>
    /\ runs = [r \in RunIds |-> IdleRun]
    /\ maps = <<>>
    /\ toolCalls = [c \in CallIds |-> IdleCall]
    /\ effects = <<>>
    /\ agentLoop = IdleLoop
    /\ briefing = IdleBriefing

\* evaluateCondition(text, stepResults)
EvaluateCondition ==
    /\ applied = <<>>
    /\ applied' = <<[op |-> "condition", git |-> GitFails,
                     out |-> evaluateCondition(text, stepResults)]>>
    /\ UNCHANGED <<text, variables, runVars>>

CondNext == EvaluateCondition

CondSpec == CondInit /\ [][CondNext]_vars

\* -------------------------------------------------------------------------
\* Properties
\* -------------------------------------------------------------------------

\* The retry bounds written in the definitions explored.
RetryBounds == 0..MaxRetry

\* Step k has been recorded in the result list.
Recorded(k) == k \in DOMAIN results

\* Step k is the step dispatched last.
LastDispatched(k) ==
    /\ dispatchCount[k] > 0
    /\ \A j \in Positions : j > k => dispatchCount[j] = 0

\* run() has returned a result aborted at step k.
AbortedAt(k) ==
    /\ pc = "done"
    /\ returned # <<>>
    /\ returned[1].abortedAt = <<workflow.steps[k].id>>

\* The loop head has reached a step whose condition is present and false.
AtFalseCondition ==
    /\ pc = "loop" /\ attempt = 0 /\ HasStep
    /\ CurrentStep.condition # <<>>
    /\ ~evaluateCondition(CurrentStep.condition, stepResults)

\* From the head of a step whose condition is false: no call of runStep, no
\* write to the store, and the only result recorded for the step is
\* {passed: true, skipped: true, output: ''}.
C1_StepFromFalseCondition ==
    AtFalseCondition =>
        /\ dispatchCount' = dispatchCount
        /\ captureCount' = captureCount
        /\ variables' = variables
        /\ results' # results =>
              /\ i' = i + 1
              /\ results' = Append(results,
                              [id |-> CurrentStep.id, passed |-> TRUE,
                               output |-> <<>>, skipped |-> TRUE,
                               failReason |-> <<>>])
              /\ stepResults'[CurrentStep.id] = results'[i]

\* A recorded skip belongs to a step with a condition that was never
\* dispatched and captured nothing.
C1_SkippedNeverRan ==
    \A k \in DOMAIN results :
        results[k].skipped =>
            /\ workflow.steps[k].condition # <<>>
            /\ results[k].passed /\ results[k].output = <<>>
            /\ dispatchCount[k] = 0
            /\ captureCount[k] = 0

\* C1: a step whose condition is present and evaluates false is never
\* dispatched, its StepResult has skipped = true, passed = true and empty
\* output, and the variable store is left unchanged by that step.
C1_FalseConditionSkips ==
    [][C1_StepFromFalseCondition]_vars /\ []C1_SkippedNeverRan

\* A later step that declares an output variable and whose condition
\* steps.s1.passed is false has been skipped without a dispatch.
C1_Witness ==
    \E k \in DOMAIN results :
        /\ results[k].skipped
        /\ workflow.steps[k].output # <<>>
        /\ workflow.steps[k].condition = <<Passed("s1")>>
        /\ dispatchCount[k] = 0
        /\ k > 1

\* C2: a step with on_fail retry(max: N) whose dispatch fails on every
\* attempt is dispatched exactly N + 1 times, and the StepResult in the
\* ledger and in the result list is the one the last attempt returned.
C2_RetryExhausted ==
    \A k \in DOMAIN results : \A n \in RetryBounds :
        ( /\ workflow.steps[k].on_fail = Retry(n)
          /\ ~results[k].skipped
          /\ firstPass[k] = 0 )
        => /\ dispatchCount[k] = n + 1
           /\ results[k].id = workflow.steps[k].id
           /\ stepResults[workflow.steps[k].id] = results[k]
           /\ LastDispatched(k) => lastDispatch = <<results[k]>>

\* A step with retry(max: MaxRetry) has failed MaxRetry + 1 times, the
\* attempts not all alike.
C2_Witness ==
    \E k \in DOMAIN results :
        /\ workflow.steps[k].on_fail = Retry(MaxRetry)
        /\ ~results[k].skipped /\ ~results[k].passed
        /\ firstPass[k] = 0
        /\ dispatchCount[k] = MaxRetry + 1
        /\ LastDispatched(k)
        /\ ~uniformFailure

\* The retry bound N of a step: N of retry(max: N), 0 by default.
RetryBoundOf(step) ==
    IF \E n \in RetryBounds : step.on_fail = Retry(n)
    THEN CHOOSE n \in RetryBounds : step.on_fail = Retry(n)
    ELSE 0

\* C3: dispatch stops at the first passing attempt: a step is dispatched at
\* most N + 1 times, and once an attempt has passed the number of
\* dispatches is the number of that attempt, for good.
C3_StopsAtFirstPass ==
    \A k \in DOMAIN workflow.steps :
        /\ dispatchCount[k] <= RetryBoundOf(workflow.steps[k]) + 1
        /\ firstPass[k] > 0 =>
              /\ dispatchCount[k] = firstPass[k]
              /\ Recorded(k) /\ results[k].passed /\ ~results[k].skipped

\* A step with retry bound MaxRetry passed on its second attempt and was
\* not dispatched a third time.
C3_Witness ==
    \E k \in DOMAIN results :
        /\ workflow.steps[k].on_fail = Retry(MaxRetry)
        /\ firstPass[k] = 2
        /\ dispatchCount[k] = 2
        /\ pc = "done"

\* The failure policies that abort the run: abort, none, retry(max: N).
AbortClass(step) ==
    \/ ~step.on_fail.present
    \/ step.on_fail = Policy(<<"abort">>)
    \/ \E n \in RetryBounds : step.on_fail = Retry(n)

\* C4: when a step is still failed after its last attempt and its policy is
\* abort, absent or retry(...), the run returns with abortedAt = the id of
\* the step and passed = false; no later step is condition-checked or
\* dispatched, and none appears in the steps of the result.
C4_FailureAborts ==
    \A k \in DOMAIN results :
        ( /\ ~results[k].passed /\ ~results[k].skipped
          /\ AbortClass(workflow.steps[k]) )
        => /\ pc = "done"
           /\ returned # <<>>
           /\ returned[1].abortedAt = <<workflow.steps[k].id>>
           /\ returned[1].passed = FALSE
           /\ returned[1].steps = results
           /\ Len(returned[1].steps) = k
           /\ \A j \in Positions :
                 j > k => dispatchCount[j] = 0 /\ conditionChecks[j] = 0

\* A run of two steps aborted at its first step, a step with retries.
C4_Witness ==
    /\ Len(workflow.steps) = 2
    /\ \E n \in RetryBounds : n > 0 /\ workflow.steps[1].on_fail = Retry(n)
    /\ workflow.steps[2].condition # <<>>
    /\ AbortedAt(1)
    /\ Len(returned[1].steps) = 1

\* C5: when a step with on_fail continue fails the run goes on to the next
\* step, the failed StepResult is in the ledger, steps.<id>.passed is false
\* in every later condition, so a later step whose condition is
\* steps.<id>.passed is skipped, and the passed of the run is false.
C5_ContinueKeepsFailure ==
    \A k \in DOMAIN results :
        ( /\ workflow.steps[k].on_fail = Policy(<<"continue">>)
          /\ ~results[k].passed /\ ~results[k].skipped )
        => /\ i > k
           /\ ~AbortedAt(k)
           /\ stepResults[workflow.steps[k].id] = results[k]
           /\ ~evaluateCondition(<<Passed(workflow.steps[k].id)>>, stepResults)
           /\ \A j \in DOMAIN results :
                 (j > k /\ workflow.steps[j].condition
                              = <<Passed(workflow.steps[k].id)>>)
                 => results[j].skipped /\ dispatchCount[j] = 0
           /\ pc = "done" => returned[1].passed = FALSE

\* Step s1 failed under continue, step s2 with condition steps.s1.passed was
\* skipped, and the run returned passed = false without aborting.
C5_Witness ==
    /\ pc = "done"
    /\ Len(results) = 2
    /\ workflow.steps[1].on_fail = Policy(<<"continue">>)
    /\ ~results[1].passed /\ ~results[1].skipped
    /\ workflow.steps[2].condition = <<Passed("s1")>>
    /\ results[2].skipped
    /\ returned[1].abortedAt = <<>>
    /\ ~returned[1].passed

\* C6: for a run that is not aborted, passed is the AND of passed over the
\* StepResults of the result, and it is true iff every recorded step that
\* was not skipped passed.
C6_AggregatePassed ==
    (pc = "done" /\ returned[1].abortedAt = <<>>) =>
        LET rs == returned[1].steps IN
        /\ returned[1].passed = (\A n \in DOMAIN rs : rs[n].passed)
        /\ returned[1].passed = (\A n \in DOMAIN rs : ~rs[n].skipped => rs[n].passed)

\* A run that was not aborted returned passed = false with a failed and a
\* skipped step in its result.
C6_Witness ==
    /\ pc = "done"
    /\ returned[1].abortedAt = <<>>
    /\ ~returned[1].passed
    /\ \E n \in DOMAIN returned[1].steps : returned[1].steps[n].skipped
    /\ \E n \in DOMAIN returned[1].steps : ~returned[1].steps[n].passed

\* The step kinds that make an external call.
KnownTypes == {"agent", "prompt", "shell"}

\* What runStep returns, in the current state, when the external call of
\* the current step throws.
C7_ThrowBecomesFailure ==
    (pc = "loop" /\ HasStep) =>
        \A env \in Envs :
            (env.throws /\ CurrentStep.type \in KnownTypes) =>
                LET out == runStep(CurrentStep, variables, env) IN
                /\ ~out.thrown
                /\ out.res.id = CurrentStep.id
                /\ ~out.res.passed /\ ~out.res.skipped
                /\ out.res.failReason = env.text

\* A failure recorded with the message of a thrown error is handled by the
\* failure policy like any failure.
C7_ThrowDrivesPolicy ==
    \A k \in DOMAIN results :
        (~results[k].skipped /\ results[k].failReason = ErrorText) =>
            /\ ~results[k].passed
            /\ AbortClass(workflow.steps[k]) => AbortedAt(k)
            /\ workflow.steps[k].on_fail = Policy(<<"continue">>) => i > k

\* C7: whatever each dispatch does (pass, fail, throw), run() returns a
\* WorkflowRunResult and never raises; a dispatch that throws is recorded as
\* a StepResult with passed = false, skipped = false and the failReason of
\* the error, and is then handled by the failure policy.
C7_NeverRaises ==
    /\ pc # "raised"
    /\ pc = "done" <=> returned # <<>>
    /\ C7_ThrowBecomesFailure
    /\ C7_ThrowDrivesPolicy

\* run() has returned after the language-model request of a step threw.
C7_Witness ==
    /\ pc = "done"
    /\ returned # <<>>
    /\ \E k \in DOMAIN results :
          /\ workflow.steps[k].type \in {"agent", "prompt"}
          /\ results[k].failReason = ErrorText
          /\ results[k].output = <<>>
          /\ ~results[k].passed /\ ~results[k].skipped

\* The failReason of a configuration error of the step: an unknown type, or
\* a missing agent or prompt document.
ConfigErrorReason(step) ==
    CASE step.type = "agent" ->
            <<".github/agents/">> \o step.agent \o <<".agent.md not found">>
      [] step.type = "prompt" -> <<"Prompt file not found: ">> \o step.prompt
      [] step.type = "shell" -> <<"<none>">>
      [] OTHER -> <<"unknown type: ", step.type>>

\* Step k is recorded, was the step dispatched last, and each of its
\* attempts failed with the given reason.
FailedThroughout(k, reason) ==
    /\ Recorded(k) /\ LastDispatched(k)
    /\ ~results[k].skipped
    /\ uniformFailure
    /\ results[k].failReason = reason

\* C8 as claimed: a step that fails with a configuration error (unknown
\* type, missing agent or prompt document) is not retried: it is dispatched
\* exactly once even when its on_fail is retry(max: N) with N > 0.
C8_ConfigErrorNotRetried ==
    \A k \in DOMAIN results : \A n \in RetryBounds :
        ( /\ n > 0
          /\ workflow.steps[k].on_fail = Retry(n)
          /\ FailedThroughout(k, ConfigErrorReason(workflow.steps[k])) )
        => dispatchCount[k] = 1

\* C8 as amended: a configuration error is retried like any other failure:
\* with on_fail retry(max: N), a step that fails with it on every attempt
\* is dispatched exactly N + 1 times, and the run then aborts at the step.
C8_ConfigErrorRetried ==
    \A k \in DOMAIN results : \A n \in RetryBounds :
        ( /\ workflow.steps[k].on_fail = Retry(n)
          /\ FailedThroughout(k, ConfigErrorReason(workflow.steps[k])) )
        => /\ dispatchCount[k] = n + 1
           /\ ~results[k].passed
           /\ results[k].output = <<>>
           /\ AbortedAt(k)

\* A step of an unknown type with retry(max: N), N > 0, has been dispatched
\* N + 1 times, and the run has aborted at it.
C8_Witness ==
    \E k \in DOMAIN results : \E n \in RetryBounds :
        /\ n > 0
        /\ workflow.steps[k].on_fail = Retry(n)
        /\ workflow.steps[k].type \notin KnownTypes
        /\ FailedThroughout(k, ConfigErrorReason(workflow.steps[k]))
        /\ dispatchCount[k] = n + 1
        /\ AbortedAt(k)

\* The expression left by the two replacements is a JavaScript expression.
JsSyntaxOk(expr) ==
    LET t == <<"(">> \o JsTokens(expr) \o <<")">>
        r == JsOr(t, 1)
    IN  r.ok /\ r.pos = Len(t) + 1

\* The condition has invalid syntax: after the two replacements it holds a
\* character outside the permitted set or is not a JavaScript expression.
InvalidSyntax(condition) ==
    LET expr == SubstSkipped(SubstPassed(condition, stepResults), stepResults)
    IN  condition # <<>> /\ (~IsSafe(expr) \/ ~JsSyntaxOk(expr))

\* C9 as claimed: a step whose condition has invalid syntax is recorded as
\* failed (passed = false), not as a passed skipped step, and its failure
\* drives the failure policy of the step.
C9_InvalidConditionFails ==
    \A k \in DOMAIN results :
        InvalidSyntax(workflow.steps[k].condition) =>
            /\ ~results[k].passed
            /\ ~results[k].skipped
            /\ AbortClass(workflow.steps[k]) => AbortedAt(k)

\* C9 as amended: a condition with invalid syntax counts as false: when the
\* run reaches the step it records it as skipped with passed = true and
\* empty output, never dispatches it, and does not apply its failure policy.
C9_InvalidConditionSkips ==
    /\ \A k \in DOMAIN workflow.steps :
          InvalidSyntax(workflow.steps[k].condition) =>
              /\ dispatchCount[k] = 0
              /\ ~AbortedAt(k)
              /\ Recorded(k) =>
                    /\ results[k] = SkippedResult(workflow.steps[k])
                    /\ stepResults[workflow.steps[k].id] = results[k]
                    /\ i > k
    /\ (pc = "loop" /\ attempt = 0 /\ HasStep
          /\ InvalidSyntax(CurrentStep.condition))
       => ~ConditionMet(CurrentStep, stepResults)

\* A step with retries whose condition holds == , outside the permitted
\* set, has been skipped, and the run has returned passed = true.
C9_Witness ==
    /\ \E k \in DOMAIN results :
          /\ InvalidSyntax(workflow.steps[k].condition)
          /\ \E n \in DOMAIN workflow.steps[k].condition :
                workflow.steps[k].condition[n] = Lit("==")
          /\ workflow.steps[k].on_fail = Retry(1)
          /\ results[k].skipped /\ results[k].passed
    /\ pc = "done" /\ returned[1].abortedAt = <<>> /\ returned[1].passed

\* An agent or prompt step is about to be dispatched.
AtModelStep ==
    /\ pc = "loop" /\ HasStep
    /\ CurrentStep.type \in {"agent", "prompt"}
    /\ attempt > 0 \/ (~cancelled /\ ConditionMet(CurrentStep, stepResults))

\* When no model can be selected the step fails with the fixed reason.
NoModelFixedReason ==
    AtModelStep =>
        \A env \in Envs :
            ~env.model =>
                runStep(CurrentStep, variables, env).res
                    = StepResult(CurrentStep.id, FALSE, <<>>, FALSE, NoLM)

\* C10 as claimed: when no language model can be obtained for an agent or
\* prompt step the step fails with a fixed reason and is not retried: it is
\* dispatched exactly once even with on_fail retry(max: N), N > 0.
C10_NoModelNotRetried ==
    /\ NoModelFixedReason
    /\ \A k \in DOMAIN results : \A n \in RetryBounds :
          ( /\ n > 0
            /\ workflow.steps[k].on_fail = Retry(n)
            /\ FailedThroughout(k, NoLM) )
          => dispatchCount[k] = 1

\* C10 as amended: the step fails with the fixed reason 'No LM available'
\* and the failure is retried like any other: with on_fail retry(max: N), a
\* step for which no model can be obtained on any attempt is dispatched
\* exactly N + 1 times, and the run then aborts at the step.
C10_NoModelRetried ==
    /\ NoModelFixedReason
    /\ \A k \in DOMAIN results : \A n \in RetryBounds :
          ( /\ workflow.steps[k].on_fail = Retry(n)
            /\ FailedThroughout(k, NoLM) )
          => /\ workflow.steps[k].type \in {"agent", "prompt"}
             /\ dispatchCount[k] = n + 1
             /\ ~results[k].passed
             /\ results[k].output = <<>>
             /\ AbortedAt(k)

\* An agent step with retry(max: MaxRetry) found no model MaxRetry + 1 times.
C10_Witness ==
    \E k \in DOMAIN results :
        /\ workflow.steps[k].type = "agent"
        /\ workflow.steps[k].on_fail = Retry(MaxRetry)
        /\ FailedThroughout(k, NoLM)
        /\ dispatchCount[k] = MaxRetry + 1
        /\ AbortedAt(k)

\* A step taken by run() while the token is cancelled: a step that had not
\* started is neither condition-checked nor dispatched nor recorded, and
\* the results recorded so far are what run() returns.
C11_StepAfterCancel ==
    (cancelled /\ pc = "loop") =>
        /\ conditionChecks' = conditionChecks
        /\ \A k \in Positions : k # i => dispatchCount'[k] = dispatchCount[k]
        /\ SubSeq(results', 1, Len(results)) = results
        /\ attempt = 0 =>
              /\ dispatchCount' = dispatchCount
              /\ results' = results
              /\ stepResults' = stepResults
              /\ pc' = "done"
              /\ returned' # <<>>
              /\ returned'[1].steps = results
              /\ returned'[1].abortedAt = <<>>

\* The token is read when an iteration begins, ahead of the condition.
C11_TokenReadFirst ==
    \A k \in Positions :
        (conditionChecks'[k] > conditionChecks[k]
            \/ (dispatchCount'[k] > dispatchCount[k] /\ dispatchCount[k] = 0))
        => /\ tokenChecks'[k] = tokenChecks[k] + 1
           /\ ~cancelled

\* The token is read exactly once in each iteration of the step loop, and
\* only a step whose iteration has begun is recorded.
C11_OncePerIteration ==
    \A k \in Positions :
        /\ tokenChecks[k] <= 1
        /\ k < i => tokenChecks[k] = 1
        /\ (k = i /\ (attempt > 0 \/ (pc = "done" /\ HasStep))) => tokenChecks[k] = 1
        /\ k > i => tokenChecks[k] = 0
        /\ (conditionChecks[k] > 0 \/ dispatchCount[k] > 0 \/ Recorded(k))
              => tokenChecks[k] = 1
        /\ (tokenChecks[k] = 0 /\ pc = "done") =>
              k \notin DOMAIN returned[1].steps

\* C11: once the cancellation signal is raised, no step that has not yet
\* started is condition-checked or dispatched, the steps of the result hold
\* no StepResult for such a step, and the StepResults recorded before are
\* returned unchanged; the signal is consulted exactly once per iteration
\* of the step loop, before the condition of the step.
C11_CancellationTruncates ==
    /\ [][C11_StepAfterCancel /\ C11_TokenReadFirst]_vars
    /\ []C11_OncePerIteration

\* A run of two steps was cancelled after its first step had been recorded:
\* it returned that one result, and the second step was never looked at.
C11_Witness ==
    /\ pc = "done" /\ cancelled
    /\ Len(workflow.steps) = 2
    /\ workflow.steps[2].condition # <<>>
    /\ returned[1].abortedAt = <<>>
    /\ Len(returned[1].steps) = 1
    /\ returned[1].steps = results
    /\ tokenChecks[2] = 1
    /\ conditionChecks[2] = 0 /\ dispatchCount[2] = 0

\* One step of run(): the store is written only when a dispatched step is
\* recorded, with the output of the attempt that returned last.
C12_WriteOnRecord ==
    /\ results' = results =>
          /\ variables' = variables
          /\ captureCount' = captureCount
    /\ (results' # results /\ dispatchCount' # dispatchCount) =>
          LET r == results'[Len(results')]
              v == CurrentStep.output
          IN  /\ lastDispatch' = <<r>>
              /\ IF v # <<>> /\ r.output # <<>>
                 THEN /\ variables' = MapSet(variables, v, r.output)
                      /\ captureCount'[i] = 1
                 ELSE /\ variables' = variables
                      /\ captureCount'[i] = 0

\* The store has been written once for a recorded step that declares an
\* output variable and ended with non-empty output, and never otherwise;
\* when the run aborts at the step the value is in the store.
C12_WrittenOnce ==
    /\ \A k \in Positions :
          captureCount[k] =
             IF /\ Recorded(k) /\ ~results[k].skipped
                /\ workflow.steps[k].output # <<>>
                /\ results[k].output # <<>>
             THEN 1 ELSE 0
    /\ \A k \in DOMAIN results :
          (AbortedAt(k) /\ captureCount[k] = 1) =>
              /\ workflow.steps[k].output \in DOMAIN variables
              /\ variables[workflow.steps[k].output] = results[k].output

\* C12: for every dispatched step with an output variable v the store is
\* written for v at most once, after the final attempt and before the
\* failure policy is applied, with the output of that attempt when it is
\* non-empty, whether the step passed or failed; outputs of earlier
\* attempts are never written, and a step that aborts the run still has
\* its output captured.
C12_CaptureAfterFinalAttempt ==
    [][C12_WriteOnRecord]_vars /\ []C12_WrittenOnce

\* A prompt step with one retry failed twice, the attempts not alike; the
\* run aborted at it and the output of the second attempt is in the store.
C12_Witness ==
    \E k \in DOMAIN results :
        /\ AbortedAt(k)
        /\ workflow.steps[k].on_fail = Retry(1)
        /\ dispatchCount[k] = 2
        /\ ~uniformFailure
        /\ ~results[k].passed
        /\ results[k].output # <<>>
        /\ captureCount[k] = 1
        /\ variables[workflow.steps[k].output] = results[k].output

\* The placeholder {{x}}.
XRef == <<"{", "{", "x", "}", "}">>

\* The recorded steps that wrote the variable v to the store.
Writers(v) ==
    {k \in DOMAIN results : captureCount[k] = 1 /\ workflow.steps[k].output = v}

\* The output of the step that wrote v last.
LastWritten(v) ==
    results[CHOOSE k \in Writers(v) : \A j \in Writers(v) : j <= k].output

RECURSIVE Substituted(_, _)
\* The text t with every {{x}} replaced by o.
Substituted(t, o) ==
    IF t = <<>> THEN <<>>
    ELSE IF StartsWith(t, XRef)
    THEN o \o Substituted(SubSeq(t, 6, Len(t)), o)
    ELSE <<Head(t)>> \o Substituted(Tail(t), o)

\* A dispatch made after some step wrote x: the command executed has every
\* {{x}} replaced by the value written last, and an input {{x}} is it.
C13_RetrievedVerbatim ==
    (dispatchCount' # dispatchCount /\ Writers(VarX) # {}) =>
        LET o == LastWritten(VarX)
            call == lastCall'[1]
        IN  /\ call.kind = "command" =>
                  call.text = Substituted(CurrentStep.command, o)
            /\ (call.kind = "input" /\ CurrentStep.input = XRef) =>
                  call.text = o

\* The store holds for x the output of the step that wrote it last.
C13_StoreHoldsLastWrite ==
    Writers(VarX) # {} =>
        /\ VarX \in DOMAIN variables
        /\ variables[VarX] = LastWritten(VarX)
        /\ LastWritten(VarX) # <<>>

\* C13: round trip: after a step with output variable x completes with
\* non-empty output o, in every later step of the run, until another step
\* writes x, an input that is exactly {{x}} resolves to o and every {{x}}
\* in a shell command is replaced by exactly o.
C13_RoundTrip ==
    [][C13_RetrievedVerbatim]_vars /\ []C13_StoreHoldsLastWrite

\* C14: for every prompt step with an output variable whose output is
\* captured into the store, the stored value is the de-fenced model output
\* (surrounding code fence or single-backtick wrapper removed), never the
\* raw fenced text, whether the step was judged passed or failed.
C14_CapturedDefenced ==
    \A k \in DOMAIN results :
        ( /\ workflow.steps[k].type = "prompt"
          /\ workflow.steps[k].output # <<>>
          /\ captureCount[k] = 1
          /\ LastDispatched(k)
          /\ Writers(workflow.steps[k].output) \subseteq 1..k )
        => variables[workflow.steps[k].output] = stripCodeFences(lastAnswer)

\* A character that can stand in an identifier.
IsIdentifier(c) == c \notin {"{", "}", " ", "\n", "<end>"}

\* The length of the {{identifier}} placeholder at the head of t, white
\* space around the identifier allowed, or 0.
IdentifierPlaceholder(t) ==
    IF /\ At(t, 1) = "{" /\ At(t, 2) = "{" /\ IsIdentifier(At(t, 3))
       /\ At(t, 4) = "}" /\ At(t, 5) = "}"
    THEN 5
    ELSE IF /\ At(t, 1) = "{" /\ At(t, 2) = "{" /\ At(t, 3) = " "
            /\ IsIdentifier(At(t, 4))
            /\ At(t, 5) = " " /\ At(t, 6) = "}" /\ At(t, 7) = "}"
    THEN 7
    ELSE 0

RECURSIVE Expanded(_, _)
\* The text with every {{identifier}} occurrence whose identifier is set
\* replaced by its value, and every other character kept.
Expanded(t, store) ==
    IF t = <<>> THEN <<>>
    ELSE LET n == IdentifierPlaceholder(t) IN
         IF n = 0 THEN <<Head(t)>> \o Expanded(Tail(t), store)
         ELSE LET id == <<t[(n + 1) \div 2]>>
              IN  (IF id \in DOMAIN store THEN store[id] ELSE SubSeq(t, 1, n))
                  \o Expanded(SubSeq(t, n + 1, Len(t)), store)

\* The text holds no {{...}} placeholder.
NoPlaceholder(t) ==
    \A p \in DOMAIN t : ~(At(t, p) = "{" /\ At(t, p + 1) = "{")

\* C15: interpolate(text) replaces every {{identifier}} occurrence whose
\* identifier is set in the store by the value of the store and leaves
\* every other character unchanged, the placeholder text of unset
\* identifiers included; a text with no {{...}} placeholder is returned
\* unchanged, for every store.
C15_InterpolateEveryOccurrence ==
    (applied # <<>> /\ applied[1].op = "interpolate") =>
        /\ applied[1].out = Expanded(text, variables)
        /\ NoPlaceholder(text) => applied[1].out = text

\* The placeholders {{y}} and {{ x }}.
YRef == <<"{", "{", "y", "}", "}">>
XPadded == <<"{", "{", " ", "x", " ", "}", "}">>

\* An input that resolveInput treats as literal text: not a built-in
\* source, and not wrapped in {{ and }} as a whole.
LiteralInput(t) ==
    /\ t \notin BuiltinInputs
    /\ ~(Len(t) >= 5 /\ SubSeq(t, 1, 2) = <<"{", "{">>
            /\ SubSeq(t, Len(t) - 1, Len(t)) = <<"}", "}">>)

\* The call applied substitutes placeholders into the text.
Substitutes ==
    /\ applied # <<>>
    /\ \/ applied[1].op \in {"interpolate", "command", "prompt"}
       \/ applied[1].op = "label" /\ text # <<>>
       \/ applied[1].op = "input" /\ LiteralInput(text)

\* C16: placeholder substitution is single-pass wherever it is applied
\* (shell command, prompt body, literal input, step description): the text produced
\* for a placeholder of x is the value of x as stored, so when that value
\* holds {{y}} the result holds {{y}} literally and the value of y is not
\* substituted into it.
C16_SinglePass ==
    /\ (Substitutes /\ <<"x">> \in DOMAIN variables) =>
        \A n \in 0..Len(text) :
            LET pre == SubSeq(text, 1, n)
                rest == SubSeq(text, n + 1, Len(text))
            IN  ( /\ \A p \in DOMAIN pre : pre[p] # "{"
                  /\ StartsWith(rest, XRef) \/ StartsWith(rest, XPadded) )
                => StartsWith(applied[1].out, pre \o variables[<<"x">>])
    /\ (applied # <<>> /\ applied[1].op = "prompt"
           /\ <<"x">> \in DOMAIN variables) =>
          LET out == applied[1].out
              value == variables[<<"x">>]
          IN  /\ Len(out) >= Len(value)
              /\ SubSeq(out, Len(out) - Len(value) + 1, Len(out)) = value

\* The command a{{x}}{{y}} has been interpolated with x set to the text
\* {{y}} and y set to w: the result is a{{y}}w.
C16_Witness ==
    /\ applied # <<>> /\ applied[1].op = "command"
    /\ text = <<"a">> \o XRef \o YRef
    /\ DOMAIN variables = {<<"x">>, <<"y">>}
    /\ variables[<<"x">>] = YRef
    /\ variables[<<"y">>] = <<"w">>
    /\ applied[1].out = <<"a">> \o YRef \o <<"w">>

\* The fallback literal of a built-in input whose command fails.
CouldNotResolve(input) == <<"(could not resolve input: ">> \o input \o <<")">>

\* C17: input resolution follows three ordered cases: (1) an input that is
\* exactly one {{name}} placeholder resolves to the value of name in the
\* store, or the empty string if unset; (2) a built-in source name resolves
\* to the output of its command, or to a fallback literal if the command
\* fails; (3) every other input, literal text with one or several {{...}}
\* placeholders included, resolves to that text with interpolation applied.
C17_InputCases ==
    (applied # <<>> /\ applied[1].op = "input" /\ text # <<>>) =>
        LET out == applied[1].out
            git == applied[1].git
            n == IdentifierPlaceholder(text)
            name == <<text[(n + 1) \div 2]>>
        IN  IF n > 0 /\ n = Len(text)
            THEN out = IF name \in DOMAIN variables THEN variables[name] ELSE <<>>
            ELSE IF text \in BuiltinInputs
            THEN out = IF ~git.ok THEN CouldNotResolve(text)
                       ELSE IF text = <<"commit_message_last">> THEN Trim(git.out)
                       ELSE git.out
            ELSE out = interpolate(text, variables)

\* The position of the step dispatched last.
LastPosition == CHOOSE k \in Positions : LastDispatched(k)

\* The latest dispatch was of a step of the given type with input
\* git_diff_staged whose first resolution came out empty.
EmptyStagedDiff(type) ==
    /\ lastCall # <<>>
    /\ lastCall[1].kind = "input"
    /\ workflow.steps[LastPosition].type = type
    /\ workflow.steps[LastPosition].input = <<"git_diff_staged">>
    /\ Trim(lastCall[1].calls.resolved[1]) = <<>>

\* The outcome of the dispatch for the input it ended up with: 'no
\* changes to stage' and no request to the model when the text is empty,
\* a request made with the text otherwise.
StagedDiffOutcome ==
    LET calls == lastCall[1].calls
        final == calls.resolved[Len(calls.resolved)]
    IN  /\ lastCall[1].text = final
        /\ IF Trim(final) = <<>>
           THEN /\ calls.sends = 0
                /\ lastDispatch[1] =
                      StepResult(workflow.steps[LastPosition].id, FALSE, <<>>,
                                 FALSE, NoChanges)
           ELSE /\ calls.sends = 1
                /\ lastDispatch[1].failReason # NoChanges

\* C18 as claimed: when the input of a step is git_diff_staged and its
\* resolution yields empty text, the dispatcher performs exactly one
\* auto-remediation (git add -u) followed by exactly one re-resolution
\* within that dispatch; if the text is still empty the step fails with a
\* 'no changes to stage' reason without any request to the model, and if
\* the re-resolution is non-empty the step proceeds with it.
C18_AutoStageEveryStep ==
    \A type \in {"agent", "prompt"} :
        EmptyStagedDiff(type) =>
            /\ Len(lastCall[1].calls.adds) = 1
            /\ Len(lastCall[1].calls.resolved) = 2
            /\ StagedDiffOutcome

\* C18 as amended: for an agent step the dispatcher runs git add -u exactly
\* once and, when that command succeeds, resolves the input exactly once
\* more; when the command fails the first, empty text stands.  If the text
\* is still empty the step fails with the reason 'No changes to stage ...'
\* without a request to the model, otherwise it proceeds with the text.  A
\* prompt step runs no git add -u and resolves its input once; it sends
\* its prompt without an input section.
C18_AutoStageAgentStep ==
    /\ EmptyStagedDiff("agent") =>
          /\ Len(lastCall[1].calls.adds) = 1
          /\ Len(lastCall[1].calls.resolved)
                = IF lastCall[1].calls.adds[1] THEN 2 ELSE 1
          /\ StagedDiffOutcome
    /\ EmptyStagedDiff("prompt") =>
          /\ lastCall[1].calls.adds = <<>>
          /\ Len(lastCall[1].calls.resolved) = 1
          /\ lastCall[1].calls.sends = 1
          /\ lastDispatch[1].failReason # NoChanges

\* An agent step found nothing staged, staged the tracked changes, resolved
\* the diff again and sent it to the model.
C18_Witness ==
    /\ EmptyStagedDiff("agent")
    /\ lastCall[1].calls.adds = <<TRUE>>
    /\ lastCall[1].calls.resolved = <<<<>>, DiffText>>
    /\ lastCall[1].text = DiffText
    /\ lastCall[1].calls.sends = 1
    /\ lastDispatch[1].passed

\* The needle occurs in the text.
Occurs(needle, hay) ==
    \E p \in 1..(Len(hay) + 1) :
        \A q \in DOMAIN needle :
            p + q - 1 \in DOMAIN hay /\ hay[p + q - 1] = needle[q]

\* A step is about to be dispatched.
AtDispatch ==
    /\ pc = "loop" /\ HasStep
    /\ attempt > 0
       \/ (LoopHeadProceeds(cancelled) /\ ConditionMet(CurrentStep, stepResults))

\* With the answer env the executor of the step is called and returns its
\* output without throwing.
ExecutorReturns(step, env) ==
    /\ ~env.throws
    /\ \/ step.type = "shell"
       \/ /\ step.type \in {"agent", "prompt"}
          /\ CallText(step, variables, env).calls.sends = 1

\* The output the executor returns: the response of the model, or the
\* trimmed stdout of the command.
ExecutorOutput(step, env) ==
    IF step.type = "shell" THEN Trim(env.text) ELSE env.text

\* The statement that the expected text was not found.
NotFoundReasons(step) ==
    { <<"Expected ", BQ>> \o step.expect \o <<BQ, " not found in output">>,
      <<"Expected ", BQ>> \o step.expect \o <<BQ, " not found">> }

\* The judgement of a dispatch whose executor returns.
C19_JudgedByExpect ==
    AtDispatch =>
        \A env \in Envs :
            ExecutorReturns(CurrentStep, env) =>
                LET step == CurrentStep
                    output == ExecutorOutput(step, env)
                    r == runStep(step, variables, env).res
                IN  /\ r.passed <=> (step.expect = <<>> \/ Occurs(step.expect, output))
                    /\ ~r.skipped
                    /\ ~r.passed =>
                          /\ r.output = output
                          /\ r.failReason \in NotFoundReasons(step)
                    /\ (step.type = "shell" /\ step.expect = <<>>) =>
                          r.passed /\ r.output = Trim(env.text)

\* A step whose every attempt missed the expectation is retried up to the
\* bound of its policy.
C19_MismatchRetried ==
    \A k \in DOMAIN results : \A n \in RetryBounds :
        ( /\ workflow.steps[k].on_fail = Retry(n)
          /\ workflow.steps[k].expect # <<>>
          /\ \E reason \in NotFoundReasons(workflow.steps[k]) :
                FailedThroughout(k, reason) )
        => dispatchCount[k] = n + 1

\* C19: for every step whose executor returns output without throwing, the
\* step passes iff expect is unset or occurs in the output; when it is set
\* and absent the StepResult has passed = false, keeps the output, carries
\* a failReason stating that the expected text was not found, and is
\* retried up to the declared bound like an execution error.  A shell step
\* with no expect and a normally exiting command passes with output equal
\* to the trimmed stdout.
C19_ExpectDecides ==
    C19_JudgedByExpect /\ C19_MismatchRetried

\* A shell step without expectation passed with the trimmed stdout, then a
\* prompt step with one retry missed its expectation twice and kept the
\* response as its output.
C19_Witness ==
    /\ Len(results) = 2
    /\ workflow.steps[1].type = "shell" /\ workflow.steps[1].expect = <<>>
    /\ results[1].passed /\ results[1].output = <<"P">>
    /\ workflow.steps[2].type = "prompt"
    /\ workflow.steps[2].on_fail = Retry(1)
    /\ \E reason \in NotFoundReasons(workflow.steps[2]) : FailedThroughout(2, reason)
    /\ dispatchCount[2] = 2
    /\ results[2].output = lastAnswer /\ lastAnswer # <<>>

\* The judgement of an agent step that declares no expect, when the
\* request to the model returns.
AgentWithoutExpect(env) ==
    /\ AtDispatch
    /\ CurrentStep.type = "agent" /\ CurrentStep.expect = <<>>
    /\ ExecutorReturns(CurrentStep, env)

\* C20 as claimed: an agent step with no expect is judged by the presence
\* of a default pass marker in the concatenated response: a response that
\* does not contain the marker yields a failed StepResult.
C20_DefaultPassMarker ==
    \A env \in Envs :
        (AgentWithoutExpect(env) /\ ~Occurs(<<"[PASS]">>, env.text)) =>
            ~runStep(CurrentStep, variables, env).res.passed

\* C20 as amended: an agent step with no expect passes whenever the
\* request to the model returns without throwing, whatever the response
\* holds; there is no default pass marker.
C20_PassesUnlessThrows ==
    /\ \A env \in Envs :
          AgentWithoutExpect(env) =>
              runStep(CurrentStep, variables, env).res
                  = StepResult(CurrentStep.id, TRUE, env.text, FALSE, <<>>)
    /\ \A k \in DOMAIN results :
          ( /\ workflow.steps[k].type = "agent"
            /\ workflow.steps[k].expect = <<>>
            /\ ~results[k].skipped /\ ~results[k].passed )
          => results[k].output = <<>>

\* An agent step without expect passed with a response that holds no pass
\* marker.
C20_Witness ==
    \E k \in DOMAIN results :
        /\ workflow.steps[k].type = "agent" /\ workflow.steps[k].expect = <<>>
        /\ LastDispatched(k)
        /\ results[k].passed
        /\ results[k].output = <<BQ, "F", BQ>>
        /\ lastAnswer = results[k].output

\* The command of the shell step has failed with text on stderr.
ShellFailed ==
    applied # <<>> /\ applied[1].op = "shell" /\ applied[1].git.throws

\* C21: for every shell step whose command throws or exits non-zero, the
\* StepResult has passed = false and skipped = false and its failReason is
\* taken from stderr (or the error message) and is at most 200 characters
\* long, for stderr of any length.
C21_ShellFailureReasonCut ==
    ShellFailed =>
        LET out == applied[1].out IN
        /\ ~out.thrown
        /\ ~out.res.passed /\ ~out.res.skipped
        /\ Len(out.res.failReason) <= 200
        /\ Len(out.res.failReason) = Min(Len(text), 200)
        /\ StartsWith(text, out.res.failReason)

\* A command failed with 201 characters on stderr: the output keeps them
\* all, the failReason the first 200.
C21_Witness ==
    /\ ShellFailed
    /\ Len(text) = 201
    /\ Len(applied[1].out.res.output) = 201
    /\ Len(applied[1].out.res.failReason) = 200
    /\ ~applied[1].out.res.passed

\* ----- a reference evaluator of the condition grammar ---------------------
\*   or  ::= and ( "||" and )*
\*   and ::= not ( "&&" not )*
\*   not ::= "!" not | terminal | "true" | "false" | "(" or ")"
\* A result is [ok, val, pos].  One operator for all its parts:
\*   "start": an expression of the level begins at l.pos
\*   "rest" : l is the left operand read so far at the level

RefFail == [ok |-> FALSE, val |-> FALSE, pos |-> 0]
RefVal(b, p) == [ok |-> TRUE, val |-> b, pos |-> p]
RefOp(level) == <<Lit("||"), Lit("&&")>>[level]
RefEnd == Lit("<end>")
RefAt(t, p) == IF p \in DOMAIN t THEN t[p] ELSE RefEnd

\* The value the ledger records for a terminal; without a record, false.
Bound(c, ledger) ==
    /\ c.v \in DOMAIN ledger
    /\ IF c.k = "passed" THEN ledger[c.v].passed ELSE ledger[c.v].skipped

RECURSIVE RefParse(_, _, _, _, _)
RefParse(mode, level, t, l, ledger) ==
    LET p == l.pos
        c == RefAt(t, p)
    IN  CASE mode = "start" /\ level < 3 ->
                LET first == RefParse("start", level + 1, t, l, ledger)
                IN  IF first.ok THEN RefParse("rest", level, t, first, ledger)
                    ELSE RefFail
          [] mode = "rest" ->
                IF c # RefOp(level) THEN l
                ELSE LET r == RefParse("start", level + 1, t, RefVal(FALSE, p + 1), ledger)
                     IN  IF ~r.ok THEN RefFail
                         ELSE RefParse("rest", level, t,
                                  RefVal(IF level = 1 THEN l.val \/ r.val
                                         ELSE l.val /\ r.val, r.pos),
                                  ledger)
          [] OTHER ->
                CASE c = Lit("!") ->
                        LET r == RefParse("start", 3, t, RefVal(FALSE, p + 1), ledger)
                        IN  IF r.ok THEN RefVal(~r.val, r.pos) ELSE RefFail
                  [] c.k \in {"passed", "skipped"} -> RefVal(Bound(c, ledger), p + 1)
                  [] c = Lit("true")  -> RefVal(TRUE, p + 1)
                  [] c = Lit("false") -> RefVal(FALSE, p + 1)
                  [] c = Lit("(") ->
                        LET r == RefParse("start", 1, t, RefVal(FALSE, p + 1), ledger)
                        IN  IF r.ok /\ RefAt(t, r.pos) = Lit(")")
                            THEN RefVal(r.val, r.pos + 1)
                            ELSE RefFail
                  [] OTHER -> RefFail

\* The tokens of a condition: white space separates and is dropped.
RefTokens(condition) ==
    SelectSeq(condition, LAMBDA c : ~(c.k = "lit" /\ c.v \in WhiteSpace))

\* The reference reading of a whole condition.
RefRead(condition, ledger) ==
    RefParse("start", 1, RefTokens(condition), RefVal(FALSE, 1), ledger)

\* The condition is a well-formed expression of the grammar.
WellFormed(condition) ==
    LET r == RefRead(condition, <<>>)
    IN  r.ok /\ r.pos = Len(RefTokens(condition)) + 1

\* The ids of the terminals of a condition.
TerminalIds(condition) ==
    {condition[n].v : n \in {m \in DOMAIN condition : condition[m].k # "lit"}}

\* C22: for every well-formed expression of the condition grammar and every
\* ledger, evaluateCondition returns the value the reference
\* recursive-descent evaluator gives under standard boolean semantics (!
\* binds tighter than &&, && tighter than ||), each terminal bound to the
\* value the ledger records.
C22_AgreesWithReference ==
    ( /\ applied # <<>>
      /\ WellFormed(text)
      /\ TerminalIds(text) \subseteq DOMAIN stepResults )
    => applied[1].out = RefRead(text, stepResults).val

\* steps.s1.passed || steps.s1.skipped && !steps.s1.passed on a ledger
\* where s1 passed: true, though read from left to right it would be false.
C22_Witness ==
    /\ applied # <<>>
    /\ text = <<Passed("s1"), Lit("||"), Skipped("s1"), Lit(" "), Lit("&&"), Lit(" "),
                Lit("!"), Passed("s1")>>
    /\ stepResults["s1"].passed /\ ~stepResults["s1"].skipped
    /\ applied[1].out = TRUE

\* The ids a condition may name: those of the steps of a definition and one
\* that no step has.
NamedIds == {IdOf(k) : k \in 1..4} \cup {"none"}

\* A terminal whose id has no entry in the ledger evaluates to false.
C23_AbsentTerminalFalse ==
    pc = "loop" =>
        \A id \in NamedIds \ DOMAIN stepResults :
            /\ ~evaluateCondition(<<Passed(id)>>, stepResults)
            /\ ~evaluateCondition(<<Skipped(id)>>, stepResults)

\* The whole condition of step k is a terminal whose id is not the id of an
\* earlier step: the ledger has no entry for it when step k is reached.
AbsentTerminalCondition(k) ==
    LET c == workflow.steps[k].condition
    IN  /\ Len(c) = 1
        /\ c[1].k \in {"passed", "skipped"}
        /\ c[1].v \notin {workflow.steps[j].id : j \in 1..(k - 1)}

\* C23: a terminal steps.<id>.passed or steps.<id>.skipped whose id has no
\* entry in the ledger (unknown id, forward reference, or a step not
\* reached) evaluates to false, so a step whose whole condition is such a
\* terminal is skipped and never dispatched.
C23_AbsentReferenceSkips ==
    /\ C23_AbsentTerminalFalse
    /\ \A k \in DOMAIN workflow.steps :
          AbsentTerminalCondition(k) =>
              /\ dispatchCount[k] = 0
              /\ Recorded(k) => results[k] = SkippedResult(workflow.steps[k])

\* The first step, whose condition names a step not yet in the ledger, has
\* been skipped without a dispatch, and the run has gone on to the next.
C23_Witness ==
    /\ Len(workflow.steps) = 2
    /\ AbsentTerminalCondition(1)
    /\ Recorded(1) /\ results[1].skipped
    /\ dispatchCount[1] = 0 /\ conditionChecks[1] = 1
    /\ dispatchCount[2] > 0

\* C24 as claimed: any condition text that, after substitution of its step
\* terminals, is not a boolean expression of the grammar evaluates to
\* false.
C24_OutsideGrammarFalse ==
    (applied # <<>> /\ ~WellFormed(text)) => applied[1].out = FALSE

\* The lower-case form of the URL contains the name.
UrlHas(url, name) == Occurs(name, ToLowerCase(url))

\* The Gerrit marks: port 29418, the path segment /a/, the name gerrit.
GerritMark(url) ==
    \/ UrlHas(url, <<":29418">>)
    \/ UrlHas(url, <<"/a/">>)
    \/ UrlHas(url, <<"gerrit">>)

\* C25 as claimed: containing 'github' gives github; else containing
\* 'gitlab' gives gitlab; else containing 'bitbucket' gives bitbucket; else
\* containing ':29418', the path segment '/a/' or 'gerrit' gives gerrit;
\* otherwise unknown.
C25_PlatformByName ==
    (applied # <<>> /\ applied[1].op = "platform") =>
        applied[1].out =
            IF UrlHas(text, <<"github">>) THEN <<"github">>
            ELSE IF UrlHas(text, <<"gitlab">>) THEN <<"gitlab">>
            ELSE IF UrlHas(text, <<"bitbucket">>) THEN <<"bitbucket">>
            ELSE IF GerritMark(text) THEN <<"gerrit">>
            ELSE <<"unknown">>

\* C25 as amended: on the lower-case form of the URL, containing
\* 'github.com' gives github; else containing 'gitlab' gives gitlab; else
\* containing 'bitbucket.org' gives bitbucket; else a Gerrit mark gives
\* gerrit; otherwise unknown.
C25_PlatformByHost ==
    (applied # <<>> /\ applied[1].op = "platform") =>
        applied[1].out =
            IF UrlHas(text, <<"github", ".com">>) THEN <<"github">>
            ELSE IF UrlHas(text, <<"gitlab">>) THEN <<"gitlab">>
            ELSE IF UrlHas(text, <<"bitbucket", ".org">>) THEN <<"bitbucket">>
            ELSE IF GerritMark(text) THEN <<"gerrit">>
            ELSE <<"unknown">>

\* A URL that names github but not github.com, and has the Gerrit port, is
\* detected as gerrit.
C25_Witness ==
    /\ applied # <<>> /\ applied[1].op = "platform"
    /\ UrlHas(text, <<"github">>) /\ ~UrlHas(text, <<"github", ".com">>)
    /\ UrlHas(text, <<":29418">>)
    /\ applied[1].out = <<"gerrit">>

\* The seeding has run with all three queries of git answered.
Seeded ==
    /\ applied # <<>> /\ applied[1].op = "seed"
    /\ applied[1].git.remote.ok /\ applied[1].git.branch.ok /\ applied[1].git.log.ok

\* The seeding has run and one of the queries of git failed.
SeedFailed ==
    /\ applied # <<>> /\ applied[1].op = "seed"
    /\ ~(applied[1].git.remote.ok /\ applied[1].git.branch.ok /\ applied[1].git.log.ok)

ReviewPush == <<"git push origin HEAD:refs/for/", "main">>
PlainPush  == <<"git push origin HEAD:", "main">>

\* C26 as claimed: for every remote URL containing ':29418' the seeded push
\* command is the refs/for form, and for every remote URL containing
\* 'github.com' it is the plain form; the form is refs/for exactly when the
\* detected platform is gerrit.
C26_PushByPort ==
    Seeded =>
        LET out == applied[1].out IN
        /\ UrlHas(text, <<":29418">>) => out[<<"git_push_cmd">>] = ReviewPush
        /\ UrlHas(text, <<"github", ".com">>) => out[<<"git_push_cmd">>] = PlainPush
        /\ out[<<"git_push_cmd">>] = ReviewPush <=> out[<<"git_platform">>] = <<"gerrit">>

\* C26 as amended: when the three queries of git succeed, the seeded push
\* command is the refs/for form exactly when the detected platform is
\* gerrit, and the plain form otherwise: refs/for for a URL with ':29418'
\* that names none of github.com, gitlab, bitbucket.org; plain for every URL
\* with 'github.com'.  When a query fails the command is 'git push' and the
\* platform unknown.
C26_PushByPlatform ==
    /\ Seeded =>
          LET out == applied[1].out IN
          /\ out[<<"git_push_cmd">>] \in {ReviewPush, PlainPush}
          /\ out[<<"git_push_cmd">>] = ReviewPush <=> out[<<"git_platform">>] = <<"gerrit">>
          /\ ( /\ UrlHas(text, <<":29418">>)
               /\ ~UrlHas(text, <<"github", ".com">>)
               /\ ~UrlHas(text, <<"gitlab">>)
               /\ ~UrlHas(text, <<"bitbucket", ".org">>) )
             => out[<<"git_push_cmd">>] = ReviewPush
          /\ UrlHas(text, <<"github", ".com">>) => out[<<"git_push_cmd">>] = PlainPush
    /\ SeedFailed =>
          /\ applied[1].out[<<"git_push_cmd">>] = <<"git push">>
          /\ applied[1].out[<<"git_platform">>] = <<"unknown">>

\* A remote on github.com with port 29418 has been seeded with the plain
\* push command.
C26_Witness ==
    /\ Seeded
    /\ UrlHas(text, <<":29418">>) /\ UrlHas(text, <<"github", ".com">>)
    /\ variables[<<"git_push_cmd">>] = PlainPush
    /\ variables[<<"git_platform">>] = <<"github">>

\* loadWorkflow has been called with the name.
Loaded(name) ==
    applied # <<>> /\ applied[1].op = "load" /\ applied[1].git = name

\* The files of the directory that are parseable definition documents.
Parseable == {n \in DOMAIN text.files :
                 IsWorkflowFile(text.files[n]) /\ text.files[n].doc.kind = "map"}

Answers(n, name) ==
    LET f == text.files[n]
        stem == <<f.base>>
        whole == <<f.base, f.ext>>
    IN  \/ f.doc.name = name
        \/ f.doc.name = <<>> /\ name = (IF f.ext = ".yml" THEN stem ELSE whole)
        \/ name = stem
        \/ name = whole

WithoutBad(dir) ==
    [dir EXCEPT !.files = SelectSeq(dir.files, LAMBDA f : f.doc.kind = "map")]

\* C28: discovery never fails because of a bad document: for every
\* directory content, listWorkflows and loadWorkflow return normally; a
\* document whose parsing fails is excluded from the listing and is never
\* returned, and every other document is still listed and loadable.
C28_BadDocumentsSwallowed ==
    applied # <<>> =>
        LET out == applied[1].out IN
        /\ ~out.thrown
        /\ applied[1].op = "list" =>
              /\ out = listWorkflows(WithoutBad(text))
              /\ \A n \in DOMAIN text.files :
                    LET whole == <<text.files[n].base, text.files[n].ext>>
                    IN  (\E k \in DOMAIN out.value : out.value[k].file = whole)
                            <=> n \in Parseable
        /\ applied[1].op = "load" =>
              /\ out = loadWorkflow(WithoutBad(text), applied[1].git)
              /\ out.value.found =>
                    \E n \in Parseable :
                        /\ out.value.def.name = text.files[n].doc.name
                        /\ out.value.def.description = text.files[n].doc.description

\* A directory whose first file cannot be parsed and whose second can:
\* the listing holds the second only.
C28_Witness ==
    /\ applied # <<>> /\ applied[1].op = "list"
    /\ Len(text.files) = 2
    /\ text.files[1].doc.kind = "throws" /\ IsWorkflowFile(text.files[1])
    /\ 2 \in Parseable
    /\ Len(applied[1].out.value) = 1
    /\ applied[1].out.value[1].file = <<text.files[2].base, text.files[2].ext>>

\* The call has begun.
Started(r) == runs[r].pc # "idle"

\* The ledger made of the results the call itself has recorded.
OwnLedger(r) ==
    LET rs == runs[r].results
    IN  [id \in {rs[k].id : k \in DOMAIN rs} |->
            rs[CHOOSE k \in DOMAIN rs : rs[k].id = id]]

RECURSIVE OwnStoreUpTo(_, _)
\* The store made of the seeds of the call and the outputs of its own
\* first k recorded steps.
OwnStoreUpTo(r, k) ==
    IF k = 0 THEN populateGitVariables(runs[r].seed[1])
    ELSE LET earlier == OwnStoreUpTo(r, k - 1)
             step == runs[r].workflow.steps[k]
             res == runs[r].results[k]
         IN  IF step.output # <<>> /\ res.output # <<>>
             THEN [x \in DOMAIN earlier \cup {step.output} |->
                      IF x = step.output THEN res.output ELSE earlier[x]]
             ELSE earlier

\* Each call has its own two Map objects.
C29_OwnMaps ==
    \A r \in RunIds : \A q \in RunIds :
        (Started(r) /\ Started(q) /\ r # q) =>
            {runs[r].variables, runs[r].stepResults}
                \cap {runs[q].variables, runs[q].stepResults} = {}

\* What a call reads for condition evaluation and interpolation is what it
\* has recorded and captured itself, whatever the other call has done.
C29_OwnContent ==
    \A r \in RunIds :
        Started(r) =>
            /\ maps[runs[r].stepResults] = OwnLedger(r)
            /\ maps[runs[r].variables] = OwnStoreUpTo(r, Len(runs[r].results))

\* C29: two runs started on the same engine instance, one after the other
\* or interleaved at their asynchronous dispatch points, share no state:
\* each has its own variable store and ledger, so a variable captured or a
\* step result recorded in one run is never visible to condition
\* evaluation or interpolation in the other.
C29_RunsShareNothing ==
    C29_OwnMaps /\ C29_OwnContent

\* The first run recorded s1 as passed and captured x; the second began
\* while the first was still in its loop, and skipped its step, whose
\* condition is steps.s1.passed, with x unset in its store.
C29_Witness ==
    /\ runs[1].pc = "done" /\ runs[2].pc = "done"
    /\ Len(runs[1].results) = 1
    /\ runs[1].results[1].passed /\ ~runs[1].results[1].skipped
    /\ VarX \in DOMAIN maps[runs[1].variables]
    /\ maps[runs[1].variables][VarX] = <<"P">>
    /\ runs[2].startedWhile = <<[pc |-> "loop", recorded |-> 1]>>
    /\ Len(runs[2].workflow.steps) = 1
    /\ runs[2].workflow.steps[1].condition = <<Passed("s1")>>
    /\ Len(runs[2].results) = 1 /\ runs[2].results[1].skipped
    /\ VarX \notin DOMAIN maps[runs[2].variables]

\* The executions of tool.invoke made for the call.
EffectsOf(c) == {n \in DOMAIN effects : effects[n].call = c}

\* invokeWithConfirmation has been entered for the call.
Entered(c) ==
    /\ toolCalls[c].pc # "idle"
    /\ toolCalls[c].result # <<McpRefused>>

\* C30: for every call of invokeWithConfirmation (from the agentic loop, a
\* command, or the MCP tools/call path), the tool's invoke action executes
\* only after the user answered 'Allow' to the confirmation shown for that
\* same call; on any other answer or dismissal nothing is executed and
\* undefined is returned; an unknown tool name returns a failure result
\* without executing anything.
C30_InvokeOnlyWhenAllowed ==
    /\ \A n \in DOMAIN effects :
          /\ toolCalls[effects[n].call].answer = <<"Allow">>
          /\ toolCalls[effects[n].call].tool = effects[n].tool
          /\ effects[n].tool \in {"silver_commit_code", "silver_push_gerrit"}
    /\ \A c \in CallIds :
          /\ Cardinality(EffectsOf(c)) <= 1
          /\ (toolCalls[c].answer # <<>> /\ toolCalls[c].answer # <<"Allow">>) =>
                /\ EffectsOf(c) = {}
                /\ toolCalls[c].result = <<Undefined>>
          /\ (Entered(c) /\ toolCalls[c].tool = "no_such_tool") =>
                /\ EffectsOf(c) = {}
                /\ toolCalls[c].answer = <<>>
                /\ toolCalls[c].result # <<>>
                /\ toolCalls[c].result[1].kind = "result"
                /\ ~toolCalls[c].result[1].success
          /\ toolCalls[c].pc = "dialog" => EffectsOf(c) = {}

\* Two calls for the same tool: the one from the MCP server was dismissed and
\* returned undefined, the one from the agentic loop was allowed and is the
\* only one that ran the tool.
C30_Witness ==
    /\ toolCalls[1].via = "loop" /\ toolCalls[1].answer = <<"Allow">>
    /\ toolCalls[2].via = "mcp" /\ toolCalls[2].answer = <<"dismissed">>
    /\ toolCalls[2].result = <<Undefined>>
    /\ toolCalls[1].tool = toolCalls[2].tool
    /\ effects = <<[call |-> 1, tool |-> toolCalls[1].tool]>>

\* The latest reply asked for a tool, and the loop went on after it: the
\* tool was unknown (a failure result came back), or the user allowed it.
WentOnAfterReply ==
    /\ agentLoop.reply # <<>>
    /\ agentLoop.reply[1].kind = "object"
    /\ ~agentLoop.reply[1].done
    /\ agentLoop.reply[1].tool # ""
    /\ agentLoop.reply[1].input
    /\ \/ agentLoop.reply[1].tool = "no_such_tool" /\ agentLoop.answer = <<>>
       \/ agentLoop.answer = <<"Allow">>

\* A request is sent only at an iteration start where the token is not
\* raised, and only if every earlier reply asked for a tool that then ran
\* or was unknown; a tool is invoked only for a reply that asked for it and
\* was not done, on 'Allow'.
C31_NothingAfterStop ==
    /\ agentLoop'.requests > agentLoop.requests =>
          /\ ~cancelled
          /\ agentLoop.requests > 0 => WentOnAfterReply
    /\ Len(effects') > Len(effects) =>
          /\ agentLoop.reply # <<>>
          /\ agentLoop.reply[1].kind = "object"
          /\ ~agentLoop.reply[1].done
          /\ agentLoop.reply[1].tool # "" /\ agentLoop.reply[1].input
          /\ agentLoop'.answer = <<"Allow">>
          /\ Len(effects') = Len(effects) + 1
    /\ agentLoop.pc \in {"returned", "raised"} =>
          /\ agentLoop'.requests = agentLoop.requests
          /\ effects' = effects

\* The requests sent and the tools invoked never exceed the setting, and at
\* most one tool is invoked per request.
C31_WithinBound ==
    /\ agentLoop.requests <= agentLoop.maxIter
    /\ Len(effects) <= agentLoop.maxIter
    /\ Len(effects) <= agentLoop.requests

\* C31: the agentic loop is bounded: for every sequence of model replies,
\* runAgenticLoop sends at most maxAgentLoopIterations requests to the
\* language model and performs at most that many tool invocations, and it
\* stops earlier, with no further request or invocation, as soon as the
\* model reports done, replies with non-JSON or unexpected text, the user
\* cancels a confirmation, or the cancellation token is raised at an
\* iteration start.
C31_LoopBounded ==
    /\ []C31_WithinBound
    /\ [][C31_NothingAfterStop]_vars

\* A loop allowed two iterations used both: two requests, two tools run, and
\* it returned at the head of a third iteration without another request.
C31_Witness ==
    /\ agentLoop.pc = "returned"
    /\ agentLoop.maxIter = 2
    /\ agentLoop.i = 2
    /\ agentLoop.requests = 2
    /\ Len(effects) = 2
    /\ ~cancelled

\* Per day, maybeShowDailySummary has run the summary at most once.
C32_AtMostOncePerDay ==
    \A d \in Days : briefing.shown[d] <= 1

\* A call of forceSummary runs the summary and leaves the stored date alone;
\* the stored date changes only when maybeShowDailySummary marks the day or
\* a reload reads it back.
C32_ForceLeavesDate ==
    /\ Len(briefing'.forced) > Len(briefing.forced) =>
          /\ briefing'.forced[Len(briefing'.forced)].ran
          /\ briefing'.stored = briefing.stored
          /\ briefing'.durable = briefing.durable
          /\ briefing'.shown = briefing.shown
    /\ \A d \in Days :
          briefing'.shown[d] > briefing.shown[d] =>
              /\ briefing.stored = <<d>>
              /\ briefing'.durable = <<d>>

\* forceSummary can run whatever the stored date.
C32_ForceAlwaysRuns ==
    Len(briefing.forced) < MaxForced => ENABLED (\E fails \in BOOLEAN : ForceSummary(fails))

\* C32: once-per-day contract: over any sequence of startup calls to
\* maybeShowDailySummary with the same calendar date, the summary is run at
\* most once, including when that run fails or the extension reloads
\* afterwards, because the date is stored before the summary is fetched;
\* forceSummary always runs the summary and never changes the stored date.
C32_OncePerDay ==
    /\ []C32_AtMostOncePerDay
    /\ []C32_ForceAlwaysRuns
    /\ [][C32_ForceLeavesDate]_vars

\* On the first day the summary ran once and failed, the extension reloaded,
\* a later startup call returned at once, and the summary was forced twice
\* with the date already stored.
C32_Witness ==
    /\ briefing.clock = 1
    /\ briefing.pc = "idle"
    /\ briefing.shown[1] = 1
    /\ briefing.failed /\ briefing.reloaded /\ briefing.skipped
    /\ briefing.stored = <<1>>
    /\ Len(briefing.forced) = 2
    /\ briefing.forced[2].last = <<1>>

\* run() has returned because the loop head saw the token raised with a
\* step still to run.
EndedByCancellation ==
    /\ pc = "done"
    /\ returned[1].abortedAt = <<>>
    /\ HasStep

\* The steps of a returned result are the results recorded, one per step of
\* the definition, in declared order, from the first step on.
C33_PrefixInOrder ==
    pc = "done" =>
        /\ returned[1].steps = results
        /\ Len(returned[1].steps) <= Len(workflow.steps)
        /\ \A k \in DOMAIN returned[1].steps :
              returned[1].steps[k].id = workflow.steps[k].id

\* A step is recorded once, at the end of the list, and what is recorded is
\* what its latest attempt returned (or the skip).
C33_FinalAttemptRecorded ==
    /\ Len(results') >= Len(results)
    /\ SubSeq(results', 1, Len(results)) = results
    /\ Len(results') > Len(results) =>
          /\ Len(results') = Len(results) + 1
          /\ IF dispatchCount' # dispatchCount
             THEN results'[Len(results')] = lastDispatch'[1]
             ELSE results'[Len(results')] = SkippedResult(CurrentStep)

\* The statement as written: the list is the whole definition exactly when
\* the run was neither aborted nor cancelled.
C33_WholeIffUninterrupted ==
    pc = "done" =>
        (Len(returned[1].steps) = Len(workflow.steps)
            <=> (returned[1].abortedAt = <<>> /\ ~EndedByCancellation))

\* The list is the whole definition exactly when the run was neither aborted
\* nor ended by cancellation, or was aborted at the last step.
C33_WholeUnlessCutShort ==
    pc = "done" =>
        (Len(returned[1].steps) = Len(workflow.steps)
            <=> \/ returned[1].abortedAt = <<>> /\ ~EndedByCancellation
                \/ /\ workflow.steps # <<>>
                   /\ returned[1].abortedAt
                         = <<workflow.steps[Len(workflow.steps)].id>>)

\* C33: in every returned WorkflowRunResult, the ids of the steps list are a
\* prefix, in declared order, of the step ids of the definition, with
\* exactly one StepResult per listed step, that of its final attempt,
\* however many retries occurred; the list is the whole definition when the
\* run was neither aborted nor cancelled, and also when it was aborted at
\* its last step.
C33_StepsArePrefix ==
    /\ [](C33_PrefixInOrder /\ C33_WholeUnlessCutShort)
    /\ [][C33_FinalAttemptRecorded]_vars

\* A run of two steps was aborted at its second step after a retry: its
\* list holds both steps.
C33_Witness ==
    /\ pc = "done"
    /\ Len(workflow.steps) = 2
    /\ Len(returned[1].steps) = 2
    /\ returned[1].abortedAt = <<"s2">>
    /\ dispatchCount[2] = 2
    /\ returned[1].steps[2] = lastDispatch[1]

RECURSIVE DispatchBudget(_)
\* The sum, over the steps, of N + 1.
DispatchBudget(steps) ==
    IF steps = <<>> THEN 0
    ELSE RetryBoundOf(Head(steps)) + 1 + DispatchBudget(Tail(steps))

RECURSIVE DispatchesUpTo(_)
\* The calls of runStep made for the steps 1..k.
DispatchesUpTo(k) ==
    IF k = 0 THEN 0 ELSE dispatchCount[k] + DispatchesUpTo(k - 1)

\* The terminal state a returned result stands for.
TerminalState(result) ==
    CASE result.abortedAt # <<>> -> "ABORTED"
      [] result.passed -> "COMPLETED_OK"
      [] OTHER -> "COMPLETED_WITH_FAILURES"

\* run() has returned a result; an aborted one is not passed.
C34_Returned ==
    /\ pc = "done"
    /\ returned # <<>>
    /\ TerminalState(returned[1]) = "ABORTED" => ~returned[1].passed
    /\ TerminalState(returned[1]) = "COMPLETED_OK" => allPassed(returned[1].steps)

\* The calls of runStep never exceed the sum over the steps of N + 1, nor,
\* for one step, N + 1.
C34_WithinBudget ==
    /\ DispatchesUpTo(MaxSteps + 1) <= DispatchBudget(workflow.steps)
    /\ \A k \in DOMAIN workflow.steps :
          dispatchCount[k] <= RetryBoundOf(workflow.steps[k]) + 1
    /\ \A k \in Positions : k \notin DOMAIN workflow.steps => dispatchCount[k] = 0

\* C34: every run over a finite definition terminates: assuming each
\* dispatch eventually returns or throws, the run eventually reaches one of
\* the terminal states COMPLETED_OK, COMPLETED_WITH_FAILURES or ABORTED,
\* after at most the sum over the steps of (N + 1) dispatches, where N is
\* the retry bound of the step.
C34_Terminates ==
    /\ <>C34_Returned
    /\ []C34_WithinBudget

\* A run of two steps used its whole budget: the first step failed under
\* continue, the second used all its attempts, and the run returned aborted.
C34_Witness ==
    /\ pc = "done"
    /\ Len(workflow.steps) = 2
    /\ DispatchBudget(workflow.steps) = 4
    /\ DispatchesUpTo(2) = 4
    /\ dispatchCount[2] = 3
    /\ TerminalState(returned[1]) = "ABORTED"

\* The form of a policy string.
BeginsWithRetry(policy) ==
    policy.present /\ policy.toks # <<>> /\ policy.toks[1] = "retry"

\* The policies explored that begin with retry and hold retry(max: N), with
\* the N they hold.
RetryForms ==
    {[policy |-> Retry(n), bound |-> n] : n \in 0..MaxRetry}
    \cup {[policy |-> Policy(<<"retry", " ", "(", " ", "max", " ", ":", "1", " ", ")">>),
           bound |-> 1],
          [policy |-> Policy(<<"retry", ";", "retry", "(", "max", ":", "1", ")">>),
           bound |-> 1]}

\* The first step has been recorded as failed.
FirstStepFailed ==
    /\ 1 \in DOMAIN results
    /\ ~results[1].passed

\* C35: the classification of a failing step by its failure policy depends
\* only on the form of the policy string: 'abort', an absent policy, and any
\* string beginning with 'retry' abort the run; every other string
\* (including a misspelt policy) lets the run continue; a string beginning
\* with 'retry' that does not match retry(max: N) gives a retry bound of 0,
\* so the step is dispatched once and then aborts the run.
C35_ClassifiedByForm ==
    LET policy == workflow.steps[1].on_fail
    IN  FirstStepFailed =>
          /\ IF \/ ~policy.present
                \/ policy = Policy(<<"abort">>)
                \/ BeginsWithRetry(policy)
             THEN /\ AbortedAt(1)
                  /\ ~returned[1].passed
                  /\ Len(returned[1].steps) = 1
                  /\ i = 1
                  /\ conditionChecks[2] = 0 /\ dispatchCount[2] = 0
             ELSE /\ ~AbortedAt(1)
                  /\ i >= 2
                  /\ pc = "done" =>
                        /\ returned[1].abortedAt = <<>>
                        /\ cancelled \/ Len(returned[1].steps) = 2
          /\ (BeginsWithRetry(policy) /\ \A f \in RetryForms : f.policy # policy) =>
                /\ dispatchCount[1] = 1
                /\ AbortedAt(1)
          /\ \A f \in RetryForms :
                f.policy = policy => dispatchCount[1] = f.bound + 1

\* A step whose policy is the bare word retry failed: it was dispatched once
\* and the run was aborted at it.
C35_Witness ==
    /\ workflow.steps[1].on_fail = Policy(<<"retry">>)
    /\ FirstStepFailed
    /\ dispatchCount[1] = 1
    /\ AbortedAt(1)

\* What run() returns for a definition without steps.
EmptyRunResult ==
    [workflowName |-> "wf", passed |-> TRUE, steps |-> <<>>, abortedAt |-> <<>>]

\* C36: a run ended by cancellation returns with abortedAt unset and passed
\* equal to the AND of passed over the steps recorded so far; in particular
\* a run cancelled before its first step returns passed = true with an empty
\* steps list, indistinguishable in the result from a successful run of an
\* empty definition.
C36_CancelledResult ==
    /\ EndedByCancellation =>
          /\ cancelled
          /\ tokenChecks[i] = 1 /\ dispatchCount[i] = 0
          /\ returned[1].abortedAt = <<>>
          /\ returned[1].steps = results
          /\ Len(results) = i - 1
          /\ returned[1].passed = (\A k \in DOMAIN results : results[k].passed)
          /\ i = 1 => returned[1] = EmptyRunResult
    /\ (pc = "done" /\ workflow.steps = <<>>) => returned[1] = EmptyRunResult

\* A run was cancelled while its first step ran; the step failed under
\* continue, and the run returned that failure without looking at the
\* second step: passed is false and abortedAt is unset.
C36_Witness ==
    /\ EndedByCancellation
    /\ i = 2
    /\ ~results[1].passed
    /\ ~returned[1].passed
    /\ returned[1].abortedAt = <<>>
    /\ Len(returned[1].steps) = 1

\* C37: in every returned result, abortedAt is set iff the last StepResult
\* in steps has passed = false and the failure policy of its step is not a
\* continue-class policy; when set, passed is false, abortedAt equals the id
\* of that last StepResult, and every earlier StepResult either passed, was
\* skipped, or failed under a continue-class policy.
C37_AbortedAtLastFailure ==
    pc = "done" =>
        LET st == returned[1].steps
            n == Len(st)
        IN  /\ returned[1].abortedAt # <<>>
                <=> /\ n >= 1
                    /\ ~st[n].passed
                    /\ AbortClass(workflow.steps[n])
            /\ returned[1].abortedAt # <<>> =>
                  /\ ~returned[1].passed
                  /\ returned[1].abortedAt = <<st[n].id>>
                  /\ \A k \in 1..(n - 1) :
                        \/ st[k].passed
                        \/ st[k].skipped
                        \/ ~AbortClass(workflow.steps[k])

\* A run was aborted at its second step; its first step had failed under
\* continue.
C37_Witness ==
    /\ pc = "done"
    /\ returned[1].abortedAt = <<"s2">>
    /\ Len(returned[1].steps) = 2
    /\ ~returned[1].steps[1].passed /\ ~returned[1].steps[1].skipped
    /\ workflow.steps[1].on_fail = Policy(<<"continue">>)
    /\ ~returned[1].steps[2].passed

\* The first step was skipped.
FirstStepSkipped ==
    /\ 1 \in DOMAIN results
    /\ results[1].skipped

\* The second step has been looked at: dispatched at least once, or
\* recorded.
SecondStepHandled == dispatchCount[2] > 0 \/ 2 \in DOMAIN results

\* C38: skips count as passes for later conditions: after a step X is
\* skipped, steps.X.passed and steps.X.skipped both evaluate to true in
\* every later condition, so a later step whose condition is steps.X.passed
\* is dispatched although X never ran, while one conditioned on
\* !steps.X.skipped is skipped.
C38_SkipCountsAsPass ==
    FirstStepSkipped =>
        /\ dispatchCount[1] = 0
        /\ evaluateCondition(<<Passed("s1")>>, stepResults)
        /\ evaluateCondition(<<Skipped("s1")>>, stepResults)
        /\ SecondStepHandled =>
              /\ workflow.steps[2].condition = <<Passed("s1")>> =>
                    /\ dispatchCount[2] > 0
                    /\ 2 \in DOMAIN results => ~results[2].skipped
              /\ workflow.steps[2].condition = <<Lit("!"), Skipped("s1")>> =>
                    /\ dispatchCount[2] = 0
                    /\ results[2].skipped
        /\ (pc = "done" /\ ~cancelled) => SecondStepHandled

\* The first step was skipped and never ran; the second, conditioned on
\* steps.s1.passed, was dispatched and passed.
C38_Witness ==
    /\ pc = "done"
    /\ FirstStepSkipped
    /\ dispatchCount[1] = 0
    /\ workflow.steps[2].condition = <<Passed("s1")>>
    /\ dispatchCount[2] = 1
    /\ Len(results) = 2
    /\ results[2].passed /\ ~results[2].skipped

\* The token is raised and the retry loop of the current step is under way.
CancelledMidRetry == cancelled /\ pc = "loop" /\ attempt > 0

\* What the runner does next once the token is raised between two attempts:
\* it calls runStep again for the same step; if that attempt passed or was
\* the last one allowed, it records the result and the captured variable
\* and applies the failure policy; else it goes round the retry loop again.
C39_RetriesIgnoreToken ==
    (CancelledMidRetry /\ vars' # vars) =>
        LET step == CurrentStep
            r == lastDispatch'[1]
        IN  /\ dispatchCount'[i] = dispatchCount[i] + 1
            /\ tokenChecks' = tokenChecks
            /\ IF r.passed \/ dispatchCount'[i] = RetryBoundOf(step) + 1
               THEN /\ results' = Append(results, r)
                    /\ stepResults'[step.id] = r
                    /\ IF step.output # <<>> /\ r.output # <<>>
                       THEN variables'[step.output] = r.output
                       ELSE variables' = variables
                    /\ IF ~r.passed /\ AbortClass(step)
                       THEN /\ pc' = "done"
                            /\ returned'[1].abortedAt = <<step.id>>
                            /\ returned'[1].steps = results'
                       ELSE /\ pc' = "loop"
                            /\ i' = i + 1
                            /\ attempt' = 0
               ELSE /\ attempt' = attempt + 1
                    /\ results' = results
                    /\ variables' = variables
                    /\ pc' = "loop" /\ i' = i

\* While the retry loop of a step is under way, the attempts made are the
\* calls of runStep for it, fewer than N + 1 and all failed.
C39_AttemptsCounted ==
    (pc = "loop" /\ attempt > 0) =>
        /\ HasStep
        /\ dispatchCount[i] = attempt
        /\ attempt <= RetryBoundOf(CurrentStep)
        /\ firstPass[i] = 0

\* C39: cancellation is not consulted between retry attempts: if the
\* cancellation signal is raised while a step with retry bound N is being
\* attempted, the runner still re-dispatches that step until an attempt
\* passes or N + 1 attempts are used, records its StepResult and captured
\* variable, and applies its failure policy (possibly returning an aborted
\* result) before the signal is observed.
C39_CancelNotSeenInRetries ==
    /\ [][C39_RetriesIgnoreToken]_vars
    /\ []C39_AttemptsCounted

\* The token was raised during the attempts of the first step, a prompt step
\* with one retry whose output is captured: the step was dispatched again,
\* its result and its output were recorded, and the run returned aborted at
\* it.  (The token was not raised when the step began, or the step would not
\* have begun; it cannot be raised once run() has returned.)
C39_Witness ==
    /\ pc = "done" /\ cancelled
    /\ workflow.steps # <<>>
    /\ workflow.steps[1].type = "prompt"
    /\ workflow.steps[1].on_fail = Retry(1)
    /\ dispatchCount[1] = 2
    /\ returned[1].abortedAt = <<"s1">>
    /\ returned[1].steps = <<lastDispatch[1]>>
    /\ captureCount[1] = 1
    /\ variables[VarX] = lastDispatch[1].output

====
